---- MODULE Spec2Model ----
(***************************************************************************)
(* RFCOMM multi-slave application: the connection orchestrator of main.c,  *)
(* the command layer of command.c and the line adapter of ui.c, driven by  *)
(* the single message queue of the application task.                       *)
(*                                                                         *)
(* All messages of the task (link-service confirmations and indications,   *)
(* MESSAGE_MORE_DATA, the application's own MSG_* messages) sit in one     *)
(* FIFO queue; message_handler runs one handler to completion per message. *)
(* The link service is the environment: it answers the requests the        *)
(* handlers have issued and raises indications for remote activity.        *)
(***************************************************************************)
EXTENDS Integers, Sequences, FiniteSets, TLC

(* ------------------------------------------------------------------ *)
(* Program constants                                                    *)
(* ------------------------------------------------------------------ *)
MAX_CONNECTIONS == 2
NO_ACTIVE == 255
UINT16 == 65536
NO_LINK_ID == 65535

(* ------------------------------------------------------------------ *)
(* Bounds of the model                                                  *)
(* ------------------------------------------------------------------ *)
MaxInFlight == 2
\* command lines of one ui_parser run post messages while fewer than this many are in flight
MaxPosted == 3
MaxSink == 2
\* the link service confirms a link only while conn_count can stay at or below this
MaxCount == 3
MaxAddr == 1

Slots == 0 .. (MAX_CONNECTIONS - 1)
Sinks == 1 .. MaxSink
Addrs == 1 .. MaxAddr

ROLE_ENUM_T == {"none", "master", "slave"}
STATE_ENUM_T == {"Disconnected", "Disconnecting", "Connecting", "Pairing", "Connected"}

ReqKinds == {"init", "local_addr", "local_name", "rfcomm_register",
             "sdp_register", "inquire",
             "sm_register_outgoing", "sdp_search", "rfcomm_connect"}

VARIABLES
    halt,        \* "run", or why the process stopped: "panic" (Panic()), "fault"
    started,     \* the startup chain has printed "Ready."
    role,        \* app.role
    connection,  \* app.connection[0..1]
    conn_count,  \* app.conn_count
    active,      \* app.active
    queue,       \* the task's message queue, head first
    parsing,     \* ui_parser is running its loop over the lines of the source
    timer,       \* MSG_SLAVE_CONNECTION_TIMEOUT messages sent later, not yet due
    pend,        \* link service: requests issued and not yet answered, by kind
    scan,        \* link service: inquiry and page scan enabled
    sdpRecord,   \* link service: the record of app->service_record_handle is registered
    inqHit,      \* link service: the running inquiry has reported its one result
    cliSink,     \* link service: sink announced by a pending client confirmation
    acceptPend,  \* link service: sinks accepted by ConnectionRfcommConnectResponse
    discPend,    \* link service: sinks with a disconnect request outstanding
    acl,         \* link service: peer addresses with an open ACL
    last,        \* history: what the step just taken handled (NoMessage: no handler ran)
    uart,        \* lexer: the characters of the line, up to uart_end
    ret,         \* lexer: the function called on the line and what it returned
    ui           \* line adapter: the UART source, ui_parser's pos, what it has done

vars == <<halt, started, role, connection, conn_count, active, queue, parsing, timer,
          pend, scan, sdpRecord, inqHit, cliSink, acceptPend, discPend, acl, last,
          uart, ret, ui>>

appVars == <<role, connection, conn_count, active>>
fwVars == <<pend, scan, sdpRecord, inqHit, cliSink, acceptPend, discPend, acl>>
\* the lexer of command.c and the line adapter of ui.c are exercised on their
\* own inputs, under ParseSpec and UiSpec
lexVars == <<uart, ret, ui>>

(* ------------------------------------------------------------------ *)
(* Data                                                                 *)
(* ------------------------------------------------------------------ *)
CONN_STATE_T == [addr : 0 .. MaxAddr, role : ROLE_ENUM_T, state : STATE_ENUM_T,
                 sink : 0 .. MaxSink]

ZeroConn == [addr |-> 0, role |-> "none", state |-> "Disconnected", sink |-> 0]

Msg(id, st, sink, addr) ==
    [id |-> id, st |-> st, sink |-> sink, addr |-> addr, link_id |-> 0]

AppMsg(id) == Msg(id, "app", 0, 0)

MSG_DISCONNECT_T(link_id) == [AppMsg("MSG_DISCONNECT") EXCEPT !.link_id = link_id]

MESSAGE_MORE_DATA == Msg("MESSAGE_MORE_DATA", "uart", 0, 0)

Line(cmd, p, n) == [cmd |-> cmd, p |-> p, n |-> n]

NoLine == Line("", "", 0)

\* the message a handler step took, app->active as the handler found it, and the
\* command line if the step is one turn of ui_parser's loop
\* tx: the slots to whose sink the step wrote
Handled(m, line) ==
    [id |-> m.id, st |-> m.st, active |-> active, line |-> line, tx |-> {}]

NoMessage ==
    [id |-> "none", st |-> "none", active |-> NO_ACTIVE, line |-> NoLine, tx |-> {}]

\* what a call of cmdcmp, cmd_parse_num or cmd_parse_value returned: rc is the
\* value of cmdcmp, ok that of the two parsers, endp the cursor, num the
\* number, len and prc the value (null: no buffer) and live the buffers that
\* are allocated when the call is over; for cmd_tx also the way it took (path),
\* the slots it wrote to (tx) and the calls of free on a buffer that was not
\* allocated any more (bad)
Returned(fn, cmd, rc, ok, endp, num, len, prc, live) ==
    [fn |-> fn, cmd |-> cmd, rc |-> rc, ok |-> ok, endp |-> endp, num |-> num,
     len |-> len, null |-> prc.null, bytes |-> prc.bytes, live |-> live,
     path |-> "", tx |-> {}, bad |-> 0]

NullBuffer == [null |-> TRUE, bytes |-> <<>>]

NoCall == Returned("none", <<>>, 0, FALSE, 0, 0, 0, NullBuffer, 0)

\* the UART as ui_parser sees it. all: the bytes the user sends, rest: those
\* that have not arrived yet, src: the bytes in the source (received and not
\* dropped), pos: the static pos of ui_parser, more: MESSAGE_MORE_DATA is
\* waiting; and what ui_parser has done: echo, the bytes it has echoed, and
\* cmds, the lines it has run command_parse on
NoUi ==
    [all |-> <<>>, rest |-> <<>>, src |-> <<>>, pos |-> 0, more |-> FALSE,
     echo |-> <<>>, cmds |-> <<>>]

MAIN_APP_T == [role |-> role, connection |-> connection,
               conn_count |-> conn_count, active |-> active]

SetApp(a) ==
    /\ role' = a.role
    /\ connection' = a.connection
    /\ conn_count' = a.conn_count
    /\ active' = a.active

InFlight ==
    Len(queue) + timer + pend["init"] + pend["local_addr"] + pend["local_name"] + pend["rfcomm_register"]
        + pend["sdp_register"] + pend["inquire"] + pend["sm_register_outgoing"]
        + pend["sdp_search"] + pend["rfcomm_connect"]
        + Cardinality(acceptPend) + Cardinality(discPend)

Request(kind) == [pend EXCEPT ![kind] = @ + 1]
Answer(kind) == [pend EXCEPT ![kind] = @ - 1]

(* ------------------------------------------------------------------ *)
(* main.c helpers                                                       *)
(* ------------------------------------------------------------------ *)
LinkFromSink(conn, sink) ==
    IF sink = conn[0].sink THEN 0
    ELSE IF sink = conn[1].sink THEN 1
    ELSE NO_ACTIVE

\* reset_active_connection without its last step, the reset of the device role
reset_keeps_role(a) ==
    IF a.active = NO_ACTIVE THEN a
    ELSE [a EXCEPT !.connection[a.active] = ZeroConn,
                   !.conn_count = IF @ > 0 THEN @ - 1 ELSE @,
                   !.active = NO_ACTIVE]

\* reset_active_connection without ACTIVE.sink = 0
reset_keeps_sink(a) ==
    IF a.active = NO_ACTIVE THEN a
    ELSE LET c == [a.connection EXCEPT ![a.active] =
                      [ZeroConn EXCEPT !.sink = a.connection[a.active].sink]]
         IN [role |-> IF c[0].state = "Disconnected" /\ c[1].state = "Disconnected"
                      THEN "none" ELSE a.role,
             connection |-> c,
             conn_count |-> IF a.conn_count > 0 THEN a.conn_count - 1 ELSE a.conn_count,
             active |-> NO_ACTIVE]

reset_active_connection(a) ==
    IF a.active = NO_ACTIVE THEN a
    ELSE LET c == [a.connection EXCEPT ![a.active] = ZeroConn]
         IN [role |-> IF c[0].state = "Disconnected" /\ c[1].state = "Disconnected"
                      THEN "none" ELSE a.role,
             connection |-> c,
             conn_count |-> IF a.conn_count > 0 THEN a.conn_count - 1 ELSE a.conn_count,
             active |-> NO_ACTIVE]

\* main() has run: the application as it waits for CL_INIT_CFM
AppInit ==
    /\ halt = "run"
    /\ started = FALSE
    /\ role = "none"
    /\ connection = [i \in Slots |-> ZeroConn]
    /\ conn_count = 0
    /\ active = NO_ACTIVE
    /\ queue = <<>>
    /\ parsing = FALSE
    /\ timer = 0
    /\ pend = [k \in ReqKinds |-> IF k = "init" THEN 1 ELSE 0]
    /\ scan = FALSE
    /\ sdpRecord = FALSE
    /\ inqHit = FALSE
    /\ cliSink = 0
    /\ acceptPend = {}
    /\ discPend = {}
    /\ acl = {}
    /\ last = NoMessage

Init ==
    /\ AppInit
    /\ uart = <<>>
    /\ ret = NoCall
    /\ ui = NoUi


(* ------------------------------------------------------------------ *)
(* message_handler: one message, one handler, run to completion         *)
(* ------------------------------------------------------------------ *)
Handling(id) == halt = "run" /\ ~parsing /\ queue # <<>> /\ Head(queue).id = id

Consume(out) ==
    /\ queue' = Tail(queue) \o out
    /\ last' = Handled(Head(queue), NoLine)
    /\ UNCHANGED lexVars

\* the process ends: nothing of its state is left
Stop(why) ==
    /\ halt' = why
    /\ last' = Handled(Head(queue), NoLine)
    /\ started' = FALSE
    /\ role' = "none"
    /\ connection' = [i \in Slots |-> ZeroConn]
    /\ conn_count' = 0
    /\ active' = NO_ACTIVE
    /\ queue' = <<>>
    /\ parsing' = FALSE
    /\ timer' = 0
    /\ pend' = [k \in ReqKinds |-> 0]
    /\ scan' = FALSE
    /\ sdpRecord' = FALSE
    /\ inqHit' = FALSE
    /\ cliSink' = 0
    /\ acceptPend' = {}
    /\ discPend' = {}
    /\ acl' = {}
    /\ UNCHANGED lexVars

Panic == Stop("panic")

\* ACTIVE is app->connection[app->active]: with active = NO_ACTIVE the handler
\* reaches past the two slots. A store there changes none of the fields
\* modelled here and a load yields any value.
ACTIVE_ok(a) == a.active \in Slots

(* ---- startup chain: main, cl_init_cfm .. cl_rfcomm_register_cfm ---- *)
StartupNext(id) ==
    CASE id = "CL_INIT_CFM" -> "local_addr"
      [] id = "CL_DM_LOCAL_BD_ADDR_CFM" -> "local_name"
      [] id = "CL_DM_LOCAL_NAME_COMPLETE" -> "rfcomm_register"
      [] OTHER -> "none"

startup_cfm(id) ==
    /\ Handling(id)
    /\ IF Head(queue).st # "success"
       THEN Panic
       ELSE /\ Consume(<<>>)
            /\ pend' = Request(StartupNext(id))
            /\ UNCHANGED <<halt, started, parsing, appVars, timer, scan, sdpRecord, inqHit, cliSink,
                           acceptPend, discPend, acl>>

cl_init_cfm == startup_cfm("CL_INIT_CFM")

cl_dm_local_bd_addr_cfm == startup_cfm("CL_DM_LOCAL_BD_ADDR_CFM")

cl_dm_local_name_complete == startup_cfm("CL_DM_LOCAL_NAME_COMPLETE")

cl_rfcomm_register_cfm ==
    /\ Handling("CL_RFCOMM_REGISTER_CFM")
    /\ IF Head(queue).st # "success"
       THEN Panic
       ELSE /\ Consume(<<>>)
            /\ started' = TRUE
            /\ UNCHANGED <<halt, parsing, appVars, timer, fwVars>>

(* ---- slave flow ---- *)
connect_slave(a) ==
    [a EXCEPT !.active = 0,
              !.role = "slave",
              !.connection[0].role = "master",
              !.connection[0].state = "Connecting"]

msg_connect_slave ==
    /\ Handling("MSG_CONNECT_SLAVE")
    /\ SetApp(connect_slave(MAIN_APP_T))
    /\ pend' = Request("sdp_register")
    /\ Consume(<<>>)
    /\ UNCHANGED <<halt, started, parsing, timer, scan, sdpRecord, inqHit, cliSink, acceptPend,
                   discPend, acl>>

cl_sdp_register_cfm ==
    /\ Handling("CL_SDP_REGISTER_CFM")
    /\ IF Head(queue).st # "success"
       THEN Panic
       ELSE /\ scan' = TRUE
            /\ sdpRecord' = TRUE
            /\ timer' = timer + 1
            /\ Consume(<<>>)
            /\ UNCHANGED <<halt, started, parsing, appVars, pend, inqHit, cliSink,
                           acceptPend, discPend, acl>>

MessageCancelAll(q, id) == SelectSeq(q, LAMBDA m : m.id # id)

connect_ind_expected(a) ==
    /\ a.role = "slave"
    /\ a.active # NO_ACTIVE
    /\ a.connection[a.active].state = "Connecting"

cl_rfcomm_connect_ind ==
    /\ Handling("CL_RFCOMM_CONNECT_IND")
    /\ LET m == Head(queue) IN
       IF connect_ind_expected(MAIN_APP_T)
       THEN /\ timer' = 0
            /\ queue' = MessageCancelAll(Tail(queue), "MSG_SLAVE_CONNECTION_TIMEOUT")
            /\ last' = Handled(m, NoLine)
            /\ UNCHANGED lexVars
            /\ connection' = [connection EXCEPT ![active].addr = m.addr,
                                                ![active].sink = m.sink]
            /\ acceptPend' = acceptPend \cup {m.sink}
            /\ UNCHANGED <<halt, started, parsing, role, conn_count, active, pend, scan, sdpRecord,
                           inqHit, cliSink, discPend, acl>>
       ELSE /\ Consume(<<>>)
            /\ UNCHANGED <<halt, started, parsing, appVars, timer, fwVars>>

server_connect_success(a, sink) ==
    [a EXCEPT !.connection[a.active].sink = sink,
              !.connection[a.active].state = "Connected",
              !.conn_count = (a.conn_count + 1) % UINT16,
              !.active = NO_ACTIVE]

cl_rfcomm_server_connect_cfm ==
    /\ Handling("CL_RFCOMM_SERVER_CONNECT_CFM")
    /\ LET m == Head(queue) IN
       IF connect_ind_expected(MAIN_APP_T)
       THEN IF m.st = "success"
            THEN IF m.sink = 0
                 THEN Panic
                 ELSE /\ SetApp(server_connect_success(MAIN_APP_T, m.sink))
                      \* stop_slave_connection
                      /\ scan' = FALSE
                      /\ sdpRecord' = FALSE
                      /\ Consume(<<>>)
                      /\ UNCHANGED <<halt, started, parsing, timer, pend, inqHit, cliSink,
                                     acceptPend, discPend, acl>>
            ELSE /\ SetApp(reset_active_connection(MAIN_APP_T))
                 /\ Consume(<<>>)
                 /\ UNCHANGED <<halt, started, parsing, timer, fwVars>>
       ELSE Panic

msg_slave_connection_timeout ==
    /\ Handling("MSG_SLAVE_CONNECTION_TIMEOUT")
    \* stop_slave_connection
    /\ scan' = FALSE
    /\ sdpRecord' = FALSE
    /\ SetApp(reset_active_connection(MAIN_APP_T))
    /\ Consume(<<>>)
    /\ UNCHANGED <<halt, started, parsing, timer, pend, inqHit, cliSink, acceptPend,
                   discPend, acl>>


(* ---- master flow ---- *)
\* the loop of connect_master: the first slot whose role is none, else app->active
\* keeps the value it had
connect_master_slot(a) ==
    IF a.connection[0].role = "none" THEN 0
    ELSE IF a.connection[1].role = "none" THEN 1
    ELSE a.active

connect_master(a) ==
    LET i == connect_master_slot(a) IN
    [a EXCEPT !.active = i,
              !.role = "master",
              !.connection[i].state = "Connecting",
              !.connection[i].role = "slave"]

msg_connect_master ==
    /\ Handling("MSG_CONNECT_MASTER")
    /\ IF connect_master_slot(MAIN_APP_T) = NO_ACTIVE
       THEN Panic
       ELSE /\ SetApp(connect_master(MAIN_APP_T))
            /\ pend' = Request("inquire")
            /\ Consume(<<>>)
            /\ UNCHANGED <<halt, started, parsing, timer, scan, sdpRecord, inqHit, cliSink,
                           acceptPend, discPend, acl>>

inquire_result(a, addr) ==
    IF ACTIVE_ok(a) THEN [a EXCEPT !.connection[a.active].addr = addr] ELSE a

\* the test of cl_dm_inquire_result turned round: an address is taken as cached
\* when none is
inquire_address_assumed(a) ==
    IF ACTIVE_ok(a) THEN {a.connection[a.active].addr # 0} ELSE BOOLEAN

\* BdaddrIsZero(&ACTIVE.addr) as cl_dm_inquire_result may find it
inquire_no_address(a) ==
    IF ACTIVE_ok(a) THEN {a.connection[a.active].addr = 0} ELSE BOOLEAN

cl_dm_inquire_result ==
    /\ Handling("CL_DM_INQUIRE_RESULT")
    /\ Consume(<<>>)
    /\ LET m == Head(queue) IN
       IF m.st = "result"
       THEN /\ SetApp(inquire_result(MAIN_APP_T, m.addr))
            /\ UNCHANGED pend
       ELSE \E zero \in inquire_no_address(MAIN_APP_T) :
              IF zero
              THEN /\ SetApp(reset_active_connection(MAIN_APP_T))
                   /\ UNCHANGED pend
              ELSE /\ pend' = Request("sm_register_outgoing")
                   /\ UNCHANGED appVars
    /\ UNCHANGED <<halt, started, parsing, timer, scan, sdpRecord, inqHit, cliSink, acceptPend, discPend, acl>>

cl_sm_register_outgoing_service_cfm ==
    /\ Handling("CL_SM_REGISTER_OUTGOING_SERVICE_CFM")
    /\ pend' = Request("sdp_search")
    /\ Consume(<<>>)
    /\ UNCHANGED <<halt, started, parsing, appVars, timer, scan, sdpRecord, inqHit, cliSink, acceptPend,
                   discPend, acl>>

\* st: "success" (a channel is among the attributes), "nochannel" (status success,
\* SdpParseGetMultipleRfcommServerChannels finds none), "fail"
cl_sdp_service_search_attribute_cfm ==
    /\ Handling("CL_SDP_SERVICE_SEARCH_ATTRIBUTE_CFM")
    /\ Consume(<<>>)
    /\ IF Head(queue).st = "success"
       THEN /\ pend' = Request("rfcomm_connect")
            /\ UNCHANGED appVars
       ELSE /\ SetApp(reset_active_connection(MAIN_APP_T))
            /\ UNCHANGED pend
    /\ UNCHANGED <<halt, started, parsing, timer, scan, sdpRecord, inqHit, cliSink, acceptPend, discPend, acl>>

client_connect_pending(a, sink) ==
    IF ACTIVE_ok(a) THEN [a EXCEPT !.connection[a.active].sink = sink] ELSE a

\* client_connect_success without app->conn_count++
client_connect_uncounted(a, sink) ==
    [a EXCEPT !.connection[a.active].sink = sink,
              !.connection[a.active].state = "Connected",
              !.active = NO_ACTIVE]

client_connect_success(a, sink) ==
    LET c == IF ACTIVE_ok(a)
             THEN [a.connection EXCEPT ![a.active].sink = sink,
                                       ![a.active].state = "Connected"]
             ELSE a.connection
    IN [a EXCEPT !.connection = c,
                 !.conn_count = (a.conn_count + 1) % UINT16,
                 !.active = NO_ACTIVE]

cl_rfcomm_client_connect_cfm ==
    /\ Handling("CL_RFCOMM_CLIENT_CONNECT_CFM")
    /\ LET m == Head(queue) IN
       CASE m.st = "pending" ->
              /\ SetApp(client_connect_pending(MAIN_APP_T, m.sink))
              /\ Consume(<<>>)
              /\ UNCHANGED <<halt, started, parsing, timer, fwVars>>
         [] m.st = "success" ->
              IF m.sink = 0
              THEN Panic
              ELSE /\ SetApp(client_connect_success(MAIN_APP_T, m.sink))
                   /\ Consume(<<>>)
                   /\ UNCHANGED <<halt, started, parsing, timer, fwVars>>
         [] OTHER ->
              /\ SetApp(reset_active_connection(MAIN_APP_T))
              /\ Consume(<<>>)
              /\ UNCHANGED <<halt, started, parsing, timer, fwVars>>

(* ---- disconnect flow ---- *)
\* disconnect(): the slot goes to Disconnecting and active is NO_ACTIVE again
\* when the handler returns
\* disconnect() without the test of the slot's state
disconnect_unchecked(a, link_id) ==
    [a EXCEPT !.connection[link_id].state = "Disconnecting",
              !.active = NO_ACTIVE]

disconnect(a, link_id) ==
    IF a.connection[link_id].state = "Connected"
    THEN [a EXCEPT !.connection[link_id].state = "Disconnecting",
                   !.active = NO_ACTIVE]
    ELSE a

msg_disconnect ==
    /\ Handling("MSG_DISCONNECT")
    /\ LET id == Head(queue).link_id IN
       /\ SetApp(disconnect(MAIN_APP_T, id))
       /\ discPend' = IF connection[id].state = "Connected"
                      THEN discPend \cup {connection[id].sink}
                      ELSE discPend
    /\ Consume(<<>>)
    /\ UNCHANGED <<halt, started, parsing, timer, pend, scan, sdpRecord, inqHit, cliSink, acceptPend, acl>>

rfcomm_disconnect_cfm(a, sink) ==
    reset_active_connection([a EXCEPT !.active = LinkFromSink(a.connection, sink)])

cl_rfcomm_disconnect_cfm ==
    /\ Handling("CL_RFCOMM_DISCONNECT_CFM")
    /\ SetApp(rfcomm_disconnect_cfm(MAIN_APP_T, Head(queue).sink))
    /\ Consume(<<>>)
    /\ UNCHANGED <<halt, started, parsing, timer, fwVars>>

\* the loop of cl_rfcomm_disconnect_ind: the first Connected slot holding the sink
disconnect_ind_slot(a, sink) ==
    IF a.connection[0].state = "Connected" /\ sink = a.connection[0].sink THEN 0
    ELSE IF a.connection[1].state = "Connected" /\ sink = a.connection[1].sink THEN 1
    ELSE MAX_CONNECTIONS

rfcomm_disconnect_ind(a, sink) ==
    LET link_id == disconnect_ind_slot(a, sink) IN
    IF link_id < MAX_CONNECTIONS
    THEN reset_active_connection([a EXCEPT !.active = link_id])
    ELSE a

cl_rfcomm_disconnect_ind ==
    /\ Handling("CL_RFCOMM_DISCONNECT_IND")
    /\ SetApp(rfcomm_disconnect_ind(MAIN_APP_T, Head(queue).sink))
    /\ Consume(<<>>)
    /\ UNCHANGED <<halt, started, parsing, timer, fwVars>>

(* ---- ACL and pairing indications ---- *)
acl_opened(a, addr) ==
    IF /\ ACTIVE_ok(a)
       /\ a.connection[a.active].role = "master"
       /\ a.connection[a.active].addr = 0
    THEN [a EXCEPT !.connection[a.active].addr = addr]
    ELSE a

cl_dm_acl_opened_ind ==
    /\ Handling("CL_DM_ACL_OPENED_IND")
    /\ SetApp(acl_opened(MAIN_APP_T, Head(queue).addr))
    /\ Consume(<<>>)
    /\ UNCHANGED <<halt, started, parsing, timer, fwVars>>

acl_closed(a, addr) ==
    IF /\ a.active # NO_ACTIVE
       /\ a.connection[a.active].state = "Disconnecting"
       /\ a.connection[a.active].addr = addr
    THEN reset_active_connection(a)
    ELSE a

cl_dm_acl_closed_ind ==
    /\ Handling("CL_DM_ACL_CLOSED_IND")
    /\ SetApp(acl_closed(MAIN_APP_T, Head(queue).addr))
    /\ Consume(<<>>)
    /\ UNCHANGED <<halt, started, parsing, timer, fwVars>>

cl_sm_io_capability_req_ind ==
    /\ Handling("CL_SM_IO_CAPABILITY_REQ_IND")
    /\ Consume(<<>>)
    /\ UNCHANGED <<halt, started, parsing, appVars, timer, fwVars>>

\* whether the handler of m evaluates ACTIVE
UsesACTIVE(m) ==
    \/ m.id \in {"CL_DM_INQUIRE_RESULT", "CL_SM_REGISTER_OUTGOING_SERVICE_CFM",
                 "CL_DM_ACL_OPENED_IND", "CL_SM_IO_CAPABILITY_REQ_IND"}
    \/ m.id = "CL_SDP_SERVICE_SEARCH_ATTRIBUTE_CFM" /\ m.st = "success"
    \/ m.id = "CL_RFCOMM_CLIENT_CONNECT_CFM" /\ m.st = "pending"
    \/ m.id = "CL_RFCOMM_CLIENT_CONNECT_CFM" /\ m.st = "success" /\ m.sink # 0

\* the other outcome of reaching past the slots: the access is trapped and the
\* application stops
MemoryFault ==
    /\ halt = "run"
    /\ ~parsing
    /\ queue # <<>>
    /\ UsesACTIVE(Head(queue))
    /\ ~ACTIVE_ok(MAIN_APP_T)
    /\ Stop("fault")


(* ------------------------------------------------------------------ *)
(* command.c: the messages each command handler sends                   *)
(* ------------------------------------------------------------------ *)
cmd_connect(a, p) ==
    IF p = "master"
    THEN IF a.role = "slave" THEN <<>>
         ELSE IF a.role = "master" /\ a.conn_count = MAX_CONNECTIONS THEN <<>>
         ELSE <<AppMsg("MSG_CONNECT_MASTER")>>
    ELSE IF a.role = "none" THEN <<AppMsg("MSG_CONNECT_SLAVE")>>
         ELSE <<>>

RECURSIVE disconnect_all(_, _)
disconnect_all(a, i) ==
    IF i >= MAX_CONNECTIONS THEN <<>>
    ELSE (IF a.connection[i].state = "Connected"
          THEN <<MSG_DISCONNECT_T(i)>> ELSE <<>>) \o disconnect_all(a, i + 1)

cmd_disconnect(a, link_id) ==
    IF a.conn_count = 0 THEN <<>>
    ELSE IF link_id = NO_LINK_ID THEN disconnect_all(a, 0)
    ELSE IF link_id < MAX_CONNECTIONS
         THEN IF a.connection[link_id].state = "Connected"
              THEN <<MSG_DISCONNECT_T(link_id)>> ELSE <<>>
         ELSE <<>>

\* the slots cmd_tx may write to: none, or the Connected slot link_id, where
\* SinkClaim or SinkMap can still fail and nothing is written
cmd_tx(a, p, link_id) ==
    IF p # "value" THEN {{}}
    ELSE IF a.conn_count = 0 THEN {{}}
    ELSE IF link_id < MAX_CONNECTIONS
         THEN IF a.connection[link_id].state = "Connected"
              THEN {{link_id}, {}} ELSE {{}}
         ELSE {{}}

\* the messages the command of this line sends; p is the parameter as it parses
\* ("" none, "id" a number, "value" a number and a value) and n the number
command_parse(a, line) ==
    CASE line.cmd = "connect" /\ line.p \in {"master", "slave"} -> cmd_connect(a, line.p)
      [] line.cmd = "disconnect" /\ line.p = "" -> cmd_disconnect(a, NO_LINK_ID)
      [] line.cmd = "disconnect" /\ line.p = "id" -> cmd_disconnect(a, line.n)
      [] OTHER -> <<>>

\* the slots the command of this line may write to
command_tx(a, line) ==
    IF line.cmd = "tx" THEN cmd_tx(a, line.p, line.n) ELSE {{}}

\* a link id past the slots
MaxLinkId == 2

CommandLines ==
    {Line("connect", "master", 0), Line("connect", "slave", 0), Line("connect", "", 0),
     Line("disconnect", "", NO_LINK_ID), Line("disconnect", "id", NO_LINK_ID),
     Line("bogus", "", 0)}
        \cup {Line("disconnect", "id", n) : n \in 0 .. MaxLinkId}
        \cup {Line("tx", "value", n) : n \in 0 .. MaxLinkId}

(* ---- ui.c: ui_parser, one command_parse per complete line in the source ---- *)
\* message_more_data enters ui_parser
ui_parser_enter ==
    /\ Handling("MESSAGE_MORE_DATA")
    /\ parsing' = TRUE
    /\ Consume(<<>>)
    /\ UNCHANGED <<halt, started, appVars, timer, fwVars>>

\* one turn of the while loop: the next complete line is run as a command
ui_parser_line ==
    /\ halt = "run"
    /\ parsing
    /\ InFlight < MaxPosted
    /\ \E line \in CommandLines :
         /\ queue' = queue \o command_parse(MAIN_APP_T, line)
         /\ \E tx \in command_tx(MAIN_APP_T, line) :
              last' = [Handled(MESSAGE_MORE_DATA, line) EXCEPT !.tx = tx]
    /\ UNCHANGED <<halt, started, parsing, appVars, timer, fwVars, lexVars>>

\* no complete line is left: ui_parser returns
ui_parser_return ==
    /\ halt = "run"
    /\ parsing
    /\ parsing' = FALSE
    /\ last' = NoMessage
    /\ UNCHANGED <<halt, started, appVars, queue, timer, fwVars, lexVars>>

(* ------------------------------------------------------------------ *)
(* The environment: the user at the UART, the timer, the link service   *)
(* ------------------------------------------------------------------ *)
\* the environment acts between two handlers
Idle == halt = "run" /\ ~parsing

\* something new (input, an indication) is taken on while the bound allows it
CanRaise == Idle /\ InFlight < MaxInFlight

Post(m) == queue' = Append(queue, m) /\ last' = NoMessage /\ UNCHANGED lexVars

MoreDataQueued == \E i \in 1 .. Len(queue) : queue[i].id = "MESSAGE_MORE_DATA"

\* input arrives at the UART: MESSAGE_MORE_DATA is sent unless one is waiting
UartInput ==
    /\ CanRaise
    /\ ~MoreDataQueued
    /\ Post(MESSAGE_MORE_DATA)
    /\ UNCHANGED <<halt, started, parsing, appVars, timer, fwVars>>

\* the 30 s of MessageSendLater have passed
TimerDue ==
    /\ Idle
    /\ timer > 0
    /\ timer' = timer - 1
    /\ Post(AppMsg("MSG_SLAVE_CONNECTION_TIMEOUT"))
    /\ UNCHANGED <<halt, started, parsing, appVars, fwVars>>

StartupKinds == {"init", "local_addr", "local_name", "rfcomm_register"}

Confirmation(kind) ==
    CASE kind = "init" -> "CL_INIT_CFM"
      [] kind = "local_addr" -> "CL_DM_LOCAL_BD_ADDR_CFM"
      [] kind = "local_name" -> "CL_DM_LOCAL_NAME_COMPLETE"
      [] kind = "rfcomm_register" -> "CL_RFCOMM_REGISTER_CFM"
      [] kind = "sdp_register" -> "CL_SDP_REGISTER_CFM"
      [] kind = "sm_register_outgoing" -> "CL_SM_REGISTER_OUTGOING_SERVICE_CFM"
      [] OTHER -> "CL_SDP_SERVICE_SEARCH_ATTRIBUTE_CFM"

AnswerStatus(kind) ==
    CASE kind = "sm_register_outgoing" -> {"success"}
      [] kind = "sdp_search" -> {"success", "nochannel", "fail"}
      [] OTHER -> {"success", "fail"}

\* the link service serves the requests of the startup chain before any other
Serving == Idle /\ started

\* a request of the startup chain is answered
FwStartupCfm ==
    /\ Idle
    /\ \E kind \in StartupKinds :
         /\ pend[kind] > 0
         /\ pend' = Answer(kind)
         /\ \E st \in AnswerStatus(kind) : Post(Msg(Confirmation(kind), st, 0, 0))
    /\ UNCHANGED <<halt, started, parsing, appVars, timer, scan, sdpRecord, inqHit, cliSink,
                   acceptPend, discPend, acl>>

\* a request that is answered by one confirmation carrying a status
FwConfirm ==
    /\ Serving
    /\ \E kind \in {"sdp_register", "sm_register_outgoing", "sdp_search"} :
         /\ pend[kind] > 0
         /\ pend' = Answer(kind)
         /\ \E st \in AnswerStatus(kind) : Post(Msg(Confirmation(kind), st, 0, 0))
    /\ UNCHANGED <<halt, started, parsing, appVars, timer, scan, sdpRecord, inqHit, cliSink,
                   acceptPend, discPend, acl>>

SinksInQueue == {queue[i].sink : i \in 1 .. Len(queue)}

FreeSinks ==
    Sinks \ (acceptPend \cup discPend \cup {cliSink} \cup SinksInQueue
             \cup {connection[i].sink : i \in Slots})

\* sinks are opaque and only compared: the link service hands out the lowest free
FreshSink == {s \in FreeSinks : \A t \in FreeSinks : s <= t}

\* a remote master connects to the server channel while the device is connectable
FwConnectInd ==
    /\ CanRaise
    /\ started
    /\ scan
    /\ \E s \in FreshSink, b \in Addrs : Post(Msg("CL_RFCOMM_CONNECT_IND", "ind", s, b))
    /\ UNCHANGED <<halt, started, parsing, appVars, timer, fwVars>>

\* the confirmations of a link in the queue, each of which counts one connection
Confirming ==
    Cardinality({i \in 1 .. Len(queue) :
        /\ queue[i].id \in {"CL_RFCOMM_SERVER_CONNECT_CFM", "CL_RFCOMM_CLIENT_CONNECT_CFM"}
        /\ queue[i].st = "success"})

CanCount == conn_count + Confirming < MaxCount

FwServerConnectCfm ==
    /\ Serving
    /\ \E s \in acceptPend :
         /\ acceptPend' = acceptPend \ {s}
         /\ \/ CanCount /\ Post(Msg("CL_RFCOMM_SERVER_CONNECT_CFM", "success", s, 0))
            \/ CanCount /\ Post(Msg("CL_RFCOMM_SERVER_CONNECT_CFM", "success", 0, 0))
            \/ Post(Msg("CL_RFCOMM_SERVER_CONNECT_CFM", "fail", 0, 0))
    /\ UNCHANGED <<halt, started, parsing, appVars, timer, pend, scan, sdpRecord, inqHit,
                   cliSink, discPend, acl>>

FwInquireResult ==
    /\ CanRaise
    /\ started
    /\ pend["inquire"] > 0
    /\ ~inqHit
    /\ inqHit' = TRUE
    /\ \E b \in Addrs : Post(Msg("CL_DM_INQUIRE_RESULT", "result", 0, b))
    /\ UNCHANGED <<halt, started, parsing, appVars, timer, pend, scan, sdpRecord, cliSink,
                   acceptPend, discPend, acl>>

FwInquireReady ==
    /\ Serving
    /\ pend["inquire"] > 0
    /\ pend' = Answer("inquire")
    /\ inqHit' = FALSE
    /\ Post(Msg("CL_DM_INQUIRE_RESULT", "ready", 0, 0))
    /\ UNCHANGED <<halt, started, parsing, appVars, timer, scan, sdpRecord, cliSink,
                   acceptPend, discPend, acl>>

FwClientConnectPending ==
    /\ CanRaise
    /\ started
    /\ pend["rfcomm_connect"] > 0
    /\ cliSink = 0
    /\ \E s \in FreshSink :
         /\ cliSink' = s
         /\ Post(Msg("CL_RFCOMM_CLIENT_CONNECT_CFM", "pending", s, 0))
    /\ UNCHANGED <<halt, started, parsing, appVars, timer, pend, scan, sdpRecord, inqHit,
                   acceptPend, discPend, acl>>

FwClientConnectCfm ==
    /\ Serving
    /\ pend["rfcomm_connect"] > 0
    /\ pend' = Answer("rfcomm_connect")
    /\ cliSink' = 0
    /\ \/ /\ CanCount
          /\ \E s \in (IF cliSink # 0 THEN {cliSink} ELSE FreshSink) :
               Post(Msg("CL_RFCOMM_CLIENT_CONNECT_CFM", "success", s, 0))
       \/ CanCount /\ Post(Msg("CL_RFCOMM_CLIENT_CONNECT_CFM", "success", 0, 0))
       \/ Post(Msg("CL_RFCOMM_CLIENT_CONNECT_CFM", "fail", 0, 0))
    /\ UNCHANGED <<halt, started, parsing, appVars, timer, scan, sdpRecord, inqHit,
                   acceptPend, discPend, acl>>

FwDisconnectCfm ==
    /\ Serving
    /\ \E s \in discPend :
         /\ discPend' = discPend \ {s}
         /\ Post(Msg("CL_RFCOMM_DISCONNECT_CFM", "success", s, 0))
    /\ UNCHANGED <<halt, started, parsing, appVars, timer, pend, scan, sdpRecord, inqHit,
                   cliSink, acceptPend, acl>>

\* the sinks of the links that are up: those of the slots past Connecting, unless
\* the indication that the link has gone is already in the queue
LinksUp ==
    {connection[i].sink : i \in {j \in Slots : connection[j].state
                                      \in {"Connected", "Disconnecting"}}}
        \ ({0} \cup {queue[i].sink : i \in {j \in 1 .. Len(queue) :
                                      queue[j].id = "CL_RFCOMM_DISCONNECT_IND"}})

\* the remote device closes an established link
FwDisconnectInd ==
    /\ CanRaise
    /\ \E s \in LinksUp : Post(Msg("CL_RFCOMM_DISCONNECT_IND", "ind", s, 0))
    /\ UNCHANGED <<halt, started, parsing, appVars, timer, pend, scan, sdpRecord, inqHit,
                   cliSink, acceptPend, discPend, acl>>

\* a connect is being set up: inbound while connectable, or by the search and
\* the connect request of the master flow
Establishing ==
    started /\ (scan \/ acceptPend # {} \/ pend["sdp_search"] > 0
                     \/ pend["rfcomm_connect"] > 0)

FwAclOpened ==
    /\ CanRaise
    /\ Establishing
    /\ \E b \in Addrs \ acl :
         /\ acl' = acl \cup {b}
         /\ Post(Msg("CL_DM_ACL_OPENED_IND", "ind", 0, b))
    /\ UNCHANGED <<halt, started, parsing, appVars, timer, pend, scan, sdpRecord, inqHit,
                   cliSink, acceptPend, discPend>>

FwAclClosed ==
    /\ CanRaise
    /\ \E b \in acl :
         /\ acl' = acl \ {b}
         /\ Post(Msg("CL_DM_ACL_CLOSED_IND", "ind", 0, b))
    /\ UNCHANGED <<halt, started, parsing, appVars, timer, pend, scan, sdpRecord, inqHit,
                   cliSink, acceptPend, discPend>>

\* pairing on an open ACL asks for the IO capability
FwIoCapabilityReq ==
    /\ CanRaise
    /\ Establishing
    /\ acl # {}
    /\ Post(Msg("CL_SM_IO_CAPABILITY_REQ_IND", "ind", 0, 0))
    /\ UNCHANGED <<halt, started, parsing, appVars, timer, fwVars>>

Next ==
    \/ cl_init_cfm
    \/ cl_dm_local_bd_addr_cfm
    \/ cl_dm_local_name_complete
    \/ cl_rfcomm_register_cfm
    \/ msg_connect_slave
    \/ cl_sdp_register_cfm
    \/ cl_rfcomm_connect_ind
    \/ cl_rfcomm_server_connect_cfm
    \/ msg_slave_connection_timeout
    \/ msg_connect_master
    \/ cl_dm_inquire_result
    \/ cl_sm_register_outgoing_service_cfm
    \/ cl_sdp_service_search_attribute_cfm
    \/ cl_rfcomm_client_connect_cfm
    \/ msg_disconnect
    \/ cl_rfcomm_disconnect_cfm
    \/ cl_rfcomm_disconnect_ind
    \/ cl_dm_acl_opened_ind
    \/ cl_dm_acl_closed_ind
    \/ cl_sm_io_capability_req_ind
    \/ MemoryFault
    \/ ui_parser_enter
    \/ ui_parser_line
    \/ ui_parser_return
    \/ UartInput
    \/ TimerDue
    \/ FwStartupCfm
    \/ FwConfirm
    \/ FwConnectInd
    \/ FwServerConnectCfm
    \/ FwInquireResult
    \/ FwInquireReady
    \/ FwClientConnectPending
    \/ FwClientConnectCfm
    \/ FwDisconnectCfm
    \/ FwDisconnectInd
    \/ FwAclOpened
    \/ FwAclClosed
    \/ FwIoCapabilityReq

Spec == Init /\ [][Next]_vars

\* MessageLoop: the scheduler delivers the message at the head of the queue to
\* message_handler, which runs the handler to its end
MessageLoop ==
    \/ cl_init_cfm
    \/ cl_dm_local_bd_addr_cfm
    \/ cl_dm_local_name_complete
    \/ cl_rfcomm_register_cfm
    \/ msg_connect_slave
    \/ cl_sdp_register_cfm
    \/ cl_rfcomm_connect_ind
    \/ cl_rfcomm_server_connect_cfm
    \/ msg_slave_connection_timeout
    \/ msg_connect_master
    \/ cl_dm_inquire_result
    \/ cl_sm_register_outgoing_service_cfm
    \/ cl_sdp_service_search_attribute_cfm
    \/ cl_rfcomm_client_connect_cfm
    \/ msg_disconnect
    \/ cl_rfcomm_disconnect_cfm
    \/ cl_rfcomm_disconnect_ind
    \/ cl_dm_acl_opened_ind
    \/ cl_dm_acl_closed_ind
    \/ cl_sm_io_capability_req_ind
    \/ MemoryFault
    \/ ui_parser_enter

\* every queued message is delivered and every handler returns; the link
\* service answers each request it was sent, and a timeout that was armed and
\* not cancelled becomes due. The answers and the timeout come in their own
\* time, whatever the handlers do in between (the model lets them in between
\* two handlers only), hence strong fairness for them. Nothing is assumed of
\* the user or of remote devices.
Fairness ==
    /\ WF_vars(MessageLoop)
    /\ WF_vars(ui_parser_return)
    /\ SF_vars(TimerDue)
    /\ SF_vars(FwStartupCfm)
    /\ SF_vars(FwConfirm)
    /\ SF_vars(FwInquireReady)
    /\ SF_vars(FwClientConnectCfm)
    /\ SF_vars(FwServerConnectCfm)
    /\ SF_vars(FwDisconnectCfm)

LiveSpec == Init /\ [][Next]_vars /\ Fairness

TypeOK ==
    /\ halt \in {"run", "panic", "fault"}
    /\ role \in ROLE_ENUM_T
    /\ connection \in [Slots -> CONN_STATE_T]
    /\ conn_count \in 0 .. MaxCount
    /\ active \in Slots \cup {NO_ACTIVE}
    /\ InFlight <= MaxPosted + 1

(* ------------------------------------------------------------------ *)
(* command.c: the lexer (cmdcmp, cmd_parse_num, cmd_parse_value)        *)
(* ------------------------------------------------------------------ *)
\* A character is a one-letter string, "NUL" the character of code 0. A line
\* is a sequence of characters; a cursor is a position in it, from 1.
DecDigits == <<"0", "1", "2", "3", "4", "5", "6", "7", "8", "9">>

UpperCase == <<"A", "B", "C", "D", "E", "F", "G", "H", "I", "J", "K", "L", "M",
               "N", "O", "P", "Q", "R", "S", "T", "U", "V", "W", "X", "Y", "Z">>

LowerCase == <<"a", "b", "c", "d", "e", "f", "g", "h", "i", "j", "k", "l", "m",
               "n", "o", "p", "q", "r", "s", "t", "u", "v", "w", "x", "y", "z">>

Range(f) == {f[k] : k \in DOMAIN f}

IndexOf(seq, c) == CHOOSE k \in DOMAIN seq : seq[k] = c

Characters ==
    {"NUL", " ", "\""} \cup Range(DecDigits) \cup Range(UpperCase) \cup Range(LowerCase)

CharCode ==
    [c \in Characters |->
        CASE c = "NUL" -> 0
          [] c = " " -> 32
          [] c = "\"" -> 34
          [] c \in Range(DecDigits) -> 47 + IndexOf(DecDigits, c)
          [] c \in Range(UpperCase) -> 64 + IndexOf(UpperCase, c)
          [] c \in Range(LowerCase) -> 96 + IndexOf(LowerCase, c)]

\* the code of a character
ord(c) == CharCode[c]

\* uart_end points behind the last character of the line
uart_end(u) == Len(u) + 1

isblank(c) == c = " "

\* while (s < uart_end && isblank(*s)) s++
RECURSIVE skip_blanks(_, _)
skip_blanks(u, s) ==
    IF s < uart_end(u) /\ isblank(u[s]) THEN skip_blanks(u, s + 1) ELSE s

\* x | 0x20 and x & 0x20
or_0x20(x) == IF (x \div 32) % 2 = 1 THEN x ELSE x + 32

and_0x20(x) == IF (x \div 32) % 2 = 1 THEN 32 ELSE 0

\* *cmd: the characters of the command, then its terminator
cmd_at(cmd, k) == IF k <= Len(cmd) THEN ord(cmd[k]) ELSE 0

\* cmd has been moved behind the terminator of the command: *cmd is whatever
\* follows the string in memory
cmd_overrun(cmd, k) == k > Len(cmd) + 1

cmd_match(u, s) == [rc |-> 0, endp |-> skip_blanks(u, s)]

cmd_mismatch(s1, rc) == [rc |-> rc, endp |-> s1]

\* cmdcmp behind its loop: the rest of the command must be optional
cmdcmp_rest(u, s, s1, cmd, k) ==
    IF cmd_overrun(cmd, k)
    THEN {cmd_match(u, s), cmd_mismatch(s1, -1)}
    ELSE IF cmd_at(cmd, k) = 0 \/ and_0x20(cmd_at(cmd, k)) # 0
         THEN {cmd_match(u, s)}
         ELSE {cmd_mismatch(s1, -1)}

\* the for loop of cmdcmp, s1 the start of the token; the values it may return
RECURSIVE cmdcmp_loop(_, _, _, _, _)
cmdcmp_loop(u, s, s1, cmd, k) ==
    IF s >= uart_end(u) THEN cmdcmp_rest(u, s, s1, cmd, k)
    ELSE IF cmd_overrun(cmd, k)
         THEN {cmd_mismatch(s1, -1)}
                  \cup cmdcmp_loop(u, s + 1, s1, cmd, k + 1)
                  \cup (IF isblank(u[s]) THEN cmdcmp_rest(u, s, s1, cmd, k) ELSE {})
         ELSE LET a == ord(u[s])
                  b == cmd_at(cmd, k)
              IN IF a # b /\ isblank(u[s]) THEN cmdcmp_rest(u, s, s1, cmd, k)
                 ELSE IF a # b /\ or_0x20(a) # or_0x20(b) THEN {cmd_mismatch(s1, a - b)}
                 ELSE cmdcmp_loop(u, s + 1, s1, cmd, k + 1)

cmdcmp(u, s, cmd) ==
    LET s1 == skip_blanks(u, s) IN cmdcmp_loop(u, s1, s1, cmd, 1)

\* ch_to_u8 with the letters A to F taken as 0 to 5
ch_to_u8_upper_from_zero(ch) ==
    LET c == ord(ch) IN
    IF c >= ord("0") /\ c <= ord("9") THEN [ok |-> TRUE, num |-> c - ord("0")]
    ELSE IF c >= ord("a") /\ c <= ord("f") THEN [ok |-> TRUE, num |-> c - ord("a") + 10]
    ELSE IF c >= ord("A") /\ c <= ord("F") THEN [ok |-> TRUE, num |-> c - ord("A")]
    ELSE [ok |-> FALSE, num |-> 0]

ch_to_u8(ch) ==
    LET c == ord(ch) IN
    IF c >= ord("0") /\ c <= ord("9") THEN [ok |-> TRUE, num |-> c - ord("0")]
    ELSE IF c >= ord("a") /\ c <= ord("f") THEN [ok |-> TRUE, num |-> c - ord("a") + 10]
    ELSE IF c >= ord("A") /\ c <= ord("F") THEN [ok |-> TRUE, num |-> c - ord("A") + 10]
    ELSE [ok |-> FALSE, num |-> 0]

\* the hex loop of cmd_parse_num: *num = (*num << 4) | i on a uint16
RECURSIVE hex_loop(_, _, _)
hex_loop(u, s, num) ==
    IF s < uart_end(u) /\ ch_to_u8(u[s]).ok
    THEN hex_loop(u, s + 1, ((num * 16) % UINT16) + ch_to_u8(u[s]).num)
    ELSE [endp |-> s, num |-> num]

RECURSIVE get_number(_, _, _)
get_number(u, s, num) ==
    IF s < uart_end(u) /\ u[s] \in Range(DecDigits)
    THEN get_number(u, s + 1, (num * 10 + ord(u[s]) - ord("0")) % UINT16)
    ELSE [end |-> s, num |-> num]

\* UtilGetNumber of the firmware library: the decimal number at s and the
\* position behind it, or NULL (end 0) when no digit is at s
UtilGetNumber(u, s) ==
    IF s < uart_end(u) /\ u[s] \in Range(DecDigits)
    THEN get_number(u, s, 0)
    ELSE [end |-> 0, num |-> 0]

\* endp is the cursor of the caller, which passes its own cursor as s
cmd_parse_num(u, s0) ==
    LET s == skip_blanks(u, s0) IN
    IF s = uart_end(u) THEN [rc |-> FALSE, endp |-> s0, num |-> 0]
    ELSE IF s + 2 < uart_end(u) /\ u[s] = "0" /\ u[s + 1] \in {"x", "X"}
         THEN LET h == hex_loop(u, s + 2, 0)
              IN [rc |-> TRUE, endp |-> h.endp, num |-> h.num]
         ELSE LET g == UtilGetNumber(u, s)
              IN IF g.end = 0
                 THEN [rc |-> FALSE, endp |-> s, num |-> 0]
                 ELSE [rc |-> TRUE, endp |-> g.end, num |-> g.num]

\* rc[len++] = x with rc a uint8 *: the whole of x is stored
store_u16(x) == x

\* rc[len++] = x with rc a uint8 *
store_u8(x) == x % 256

\* the one element of a set of one: a value is computed once and then named
Only(S) == CHOOSE x \in S : TRUE

\* the turn of the while loop of cmd_parse_value that finds a number, or none
value_number(s, in_str, rc, n) ==
    IF n.rc
    THEN [s |-> n.endp + 1, in_str |-> in_str,
          rc |-> Append(rc, store_u8(n.num)), brk |-> FALSE]
    ELSE [s |-> n.endp, in_str |-> TRUE, rc |-> rc, brk |-> TRUE]

RECURSIVE value_loop(_, _, _, _)

\* the while loop behind a turn t
value_next(u, t) ==
    IF t.brk THEN [s |-> t.s, in_str |-> t.in_str, rc |-> t.rc]
    ELSE value_loop(u, t.s, t.in_str, t.rc)

\* one turn of the while loop of cmd_parse_value; brk: the loop is left by break
value_step(u, s, in_str, rc) ==
    IF u[s] = "\"" THEN [s |-> s + 1, in_str |-> ~in_str, rc |-> rc, brk |-> FALSE]
    ELSE IF in_str
         THEN [s |-> s + 1, in_str |-> in_str,
               rc |-> Append(rc, store_u8(ord(u[s]))), brk |-> FALSE]
    ELSE IF isblank(u[s])
         THEN [s |-> skip_blanks(u, s + 1), in_str |-> in_str, rc |-> rc, brk |-> FALSE]
    ELSE Only({value_number(s, in_str, rc, n) : n \in {cmd_parse_num(u, s)}})

\* the while loop of cmd_parse_value
value_loop(u, s, in_str, rc) ==
    IF s >= uart_end(u) THEN [s |-> s, in_str |-> in_str, rc |-> rc]
    ELSE Only({value_next(u, t) : t \in {value_step(u, s, in_str, rc)}})

\* the heap as far as the command layer uses it: live counts the buffers that
\* are allocated, bad the calls of free on a buffer that is not
NoHeap == [live |-> 0, bad |-> 0]

\* the allocation succeeds (PanicUnlessMalloc does not return otherwise)
PanicUnlessMalloc(h) == [h EXCEPT !.live = @ + 1]

\* free without its effect
free_nothing(h, null) == h

\* free(p) for the buffer of the command, or for NULL
free(h, null) ==
    IF null THEN h
    ELSE IF h.live > 0 THEN [h EXCEPT !.live = @ - 1]
    ELSE [h EXCEPT !.bad = @ + 1]

\* if (in_str || !len) { free(rc); rc = NULL; len = 0; }
value_cleanup(r) == r.in_str \/ Len(r.rc) = 0

\* rc = PanicUnlessMalloc(uart_end - s) and the free of the clean up
value_heap(r) ==
    IF value_cleanup(r) THEN free(PanicUnlessMalloc(NoHeap), FALSE)
    ELSE PanicUnlessMalloc(NoHeap)

\* live: the buffers of PanicUnlessMalloc not freed when the function returns
value_return(r) ==
    [rc |-> ~r.in_str,
     endp |-> r.s,
     len |-> IF value_cleanup(r) THEN 0 ELSE Len(r.rc),
     prc |-> IF value_cleanup(r) THEN NullBuffer ELSE [null |-> FALSE, bytes |-> r.rc],
     live |-> value_heap(r).live,
     heap |-> value_heap(r)]

cmd_parse_value(u, s0) ==
    Only({value_return(r) : r \in {value_loop(u, s0, FALSE, <<>>)}})

(* ---- cmd_tx on the characters of its parameters ---- *)
\* the way cmd_tx takes behind the two parsers; tx: the slots written to
tx_path(a, link_id, tx) ==
    IF a.conn_count = 0 THEN "noconn"
    ELSE IF link_id < MAX_CONNECTIONS
         THEN IF a.connection[link_id].state = "Connected"
              THEN IF tx = {} THEN "claim" ELSE "written"
              ELSE "notconn"
         ELSE "range"

TxFailed(path, link_id, heap) ==
    [ok |-> FALSE, path |-> path, link_id |-> link_id, tx |-> {}, bytes |-> <<>>,
     len |-> 0, heap |-> heap]

\* both parsers have returned TRUE: the checks, the write, free(s), return TRUE
tx_checked(a, n, v) ==
    {[ok |-> TRUE, path |-> tx_path(a, n.num, tx), link_id |-> n.num, tx |-> tx,
      bytes |-> IF tx = {} THEN <<>> ELSE v.prc.bytes, len |-> v.len,
      heap |-> free(v.heap, v.prc.null)] : tx \in cmd_tx(a, "value", n.num)}

\* if (!cmd_parse_value(params, &params, &len, &s)) return FALSE
tx_value(a, n, v) ==
    IF ~v.rc THEN {TxFailed("value", n.num, v.heap)} ELSE tx_checked(a, n, v)

\* if (!cmd_parse_num(params, &params, &link_id)) return FALSE
tx_number(a, u, n) ==
    IF ~n.rc THEN {TxFailed("num", 0, NoHeap)}
    ELSE UNION {tx_value(a, n, v) : v \in {cmd_parse_value(u, n.endp)}}

\* cmd_tx with params at s0: what it may return and do
cmd_tx_params(a, u, s0) ==
    UNION {tx_number(a, u, n) : n \in {cmd_parse_num(u, s0)}}

\* the commands command_parse compares a line with
Commands ==
    {<<"S", "t", "a", "t", "e">>,
     <<"C", "o", "n", "n", "e", "c", "t">>,
     <<"D", "E", "b", "u", "g">>,
     <<"D", "i", "s", "c", "o", "n", "n", "e", "c", "t">>,
     <<"T", "X">>}

(* ---- the lines the lexer is run on ---- *)
\* a line is made of at most this many pieces
MaxPieces == 4

KeywordPieces ==
    {<<"D", "E">>, <<"d", "e">>, <<"d">>, <<"b", "u", "g">>, <<"B", "U", "G">>,
     <<"t", "x">>, <<"x">>, <<" ">>, <<"NUL">>}

NumberPieces ==
    {<<" ">>, <<"0", "x">>, <<"0", "X">>, <<"1", "A">>, <<"4", "2">>,
     <<"a", "b", "c">>, <<"x", "y", "z">>, <<"f", "f", "f">>}

ValuePieces ==
    {<<"\"">>, <<"\"", "h", "i", "\"">>, <<"h", "i">>, <<" ">>,
     <<"0", "x", "4", "1">>, <<"6", "5">>, <<"0", "x", "1", "4", "1">>}

TxPieces ==
    {<<"0">>, <<"1">>, <<"2">>, <<" ">>, <<"\"", "h", "i", "\"">>, <<"\"", "\"">>,
     <<"\"">>, <<"x">>}

RECURSIVE Concats(_, _)
Concats(P, n) ==
    IF n = 0 THEN {<<>>}
    ELSE LET R == Concats(P, n - 1) IN R \cup {r \o p : r \in R, p \in P}

Lines ==
    Concats(KeywordPieces, MaxPieces) \cup Concats(NumberPieces, MaxPieces)
        \cup Concats(ValuePieces, MaxPieces) \cup Concats(TxPieces, MaxPieces)

\* the application's variables, which the lexer does not touch
mainVars == <<halt, started, role, connection, conn_count, active, queue, parsing,
              timer, pend, scan, sdpRecord, inqHit, cliSink, acceptPend, discPend, acl,
              last>>

ParseInit ==
    /\ AppInit
    /\ uart \in Lines
    /\ ret = NoCall
    /\ ui = NoUi

\* command_parse compares the line with a command
CallCmdcmp ==
    /\ ret = NoCall
    /\ \E cmd \in Commands : \E r \in cmdcmp(uart, 1, cmd) :
         ret' = Returned("cmdcmp", cmd, r.rc, FALSE, r.endp, 0, 0, NullBuffer, 0)
    /\ UNCHANGED <<uart, ui, mainVars>>

\* a command handler parses a number at the start of its parameters
CallParseNum ==
    /\ ret = NoCall
    /\ \E r \in {cmd_parse_num(uart, 1)} :
         ret' = Returned("cmd_parse_num", <<>>, 0, r.rc, r.endp, r.num, 0, NullBuffer, 0)
    /\ UNCHANGED <<uart, ui, mainVars>>

\* a command handler parses a value at the start of its parameters
CallParseValue ==
    /\ ret = NoCall
    /\ \E r \in {cmd_parse_value(uart, 1)} :
         ret' = Returned("cmd_parse_value", <<>>, 0, r.rc, r.endp, 0, r.len, r.prc, r.live)
    /\ UNCHANGED <<uart, ui, mainVars>>

\* the application as cmd_tx may find it: no link, or a link on slot 0
IdleApp ==
    [role |-> "none", connection |-> [i \in Slots |-> ZeroConn], conn_count |-> 0,
     active |-> NO_ACTIVE]

LinkedApp ==
    [role |-> "master",
     connection |-> [i \in Slots |->
                        IF i = 0 THEN [addr |-> 1, role |-> "slave",
                                       state |-> "Connected", sink |-> 1]
                        ELSE ZeroConn],
     conn_count |-> 1,
     active |-> NO_ACTIVE]

TxApps == {IdleApp, LinkedApp}

\* command_parse runs cmd_tx on the parameters of a tx command
CallTx ==
    /\ ret = NoCall
    /\ \E a \in TxApps : \E r \in cmd_tx_params(a, uart, 1) :
         ret' = [Returned("cmd_tx", <<>>, 0, r.ok, 0, r.link_id, r.len,
                          [null |-> r.tx = {}, bytes |-> r.bytes], r.heap.live)
                     EXCEPT !.path = r.path, !.tx = r.tx, !.bad = r.heap.bad]
    /\ UNCHANGED <<uart, ui, mainVars>>

ParseNext == CallCmdcmp \/ CallParseNum \/ CallParseValue \/ CallTx

ParseSpec == ParseInit /\ [][ParseNext]_vars

(* ------------------------------------------------------------------ *)
(* ui.c: ui_parser on the bytes of the UART source                      *)
(* ------------------------------------------------------------------ *)
\* a byte is a letter, "CR" or "LF"; positions in the source count from 0
is_eol(c) == c \in {"CR", "LF"}

\* for (i = pos; i < len; i++) if (data[i] == '\r' || data[i] == '\n') break
RECURSIVE eol_search(_, _, _)
eol_search(data, i, len) ==
    IF i < len /\ ~is_eol(data[i + 1]) THEN eol_search(data, i + 1, len) ELSE i

\* the bytes SourceDrop takes behind the line that ends at i: \r\n or \r
drop_count(data, i, len) ==
    IF i + 1 < len /\ data[i + 2] = "LF" THEN i + 2 ELSE i + 1

\* SourceDrop with the line run first, its end found but not yet dropped
SourceDrop(p, n) == [p EXCEPT !.src = SubSeq(@, n + 1, Len(@)), !.pos = 0]

\* one turn of the while loop, i the position the for loop has stopped at:
\* the echo, and for a complete line command_parse and SourceDrop
ui_parser_turn(p, i) ==
    IF i < Len(p.src)
    THEN SourceDrop([p EXCEPT !.echo = @ \o SubSeq(p.src, p.pos + 1, i),
                              !.cmds = Append(@, SubSeq(p.src, 1, i))],
                    drop_count(p.src, i, Len(p.src)))
    ELSE [p EXCEPT !.echo = @ \o SubSeq(p.src, p.pos + 1, i), !.pos = i]

\* while ((len = SourceSize(src)) > pos)
RECURSIVE ui_parser(_)
ui_parser(p) ==
    IF Len(p.src) > p.pos
    THEN Only({ui_parser(q) :
                 q \in {ui_parser_turn(p, eol_search(p.src, p.pos, Len(p.src)))}})
    ELSE p

\* the user sends at most this many bytes
MaxStream == 5

UiBytes == {"a", "b", "CR", "LF"}

RECURSIVE Streams(_)
Streams(n) ==
    IF n = 0 THEN {<<>>}
    ELSE Streams(n - 1) \cup {Append(t, c) : t \in Streams(n - 1), c \in UiBytes}

UiInit ==
    /\ AppInit
    /\ uart = <<>>
    /\ ret = NoCall
    /\ \E all \in Streams(MaxStream) : ui = [NoUi EXCEPT !.all = all, !.rest = all]

\* the next bytes arrive in the source; the firmware sends MESSAGE_MORE_DATA
UartReceive ==
    /\ \E k \in 1 .. Len(ui.rest) :
         ui' = [ui EXCEPT !.src = @ \o SubSeq(ui.rest, 1, k),
                          !.rest = SubSeq(@, k + 1, Len(@)),
                          !.more = TRUE]
    /\ UNCHANGED <<uart, ret, mainVars>>

\* message_more_data for the UART source: ui_parser, run to its return
UiMoreData ==
    /\ ui.more
    /\ ui' = [ui_parser(ui) EXCEPT !.more = FALSE]
    /\ UNCHANGED <<uart, ret, mainVars>>

UiNext == UartReceive \/ UiMoreData

UiSpec == UiInit /\ [][UiNext]_vars

(* ------------------------------------------------------------------ *)
(* main.c: cl_dm_local_name_complete caches the device name             *)
(* ------------------------------------------------------------------ *)
MAX_OWN_NAME == 21

\* the longest name the firmware reports
MaxNameSize == 248

\* char own_name[MAX_OWN_NAME]: the indices of the buffer
own_name == 0 .. (MAX_OWN_NAME - 1)

copy_size(size_local_name) ==
    IF size_local_name < MAX_OWN_NAME THEN size_local_name ELSE MAX_OWN_NAME

\* the indices memmove stores to
memmove(n) == 0 .. (n - 1)

\* the indices of own_name the handler stores to: the bytes of the name, then
\* app->own_name[copy_size] = 0
name_stores(size_local_name) ==
    memmove(copy_size(size_local_name)) \cup {copy_size(size_local_name)}

NameArrived(n) == [fn |-> "CL_DM_LOCAL_NAME_COMPLETE", size_local_name |-> n]

NameCached(n) ==
    [fn |-> "cl_dm_local_name_complete", size_local_name |-> n,
     copy_size |-> copy_size(n), nul |-> copy_size(n), stores |-> name_stores(n)]

\* CL_DM_LOCAL_NAME_COMPLETE is delivered with status success and a name of any
\* size
NameInit ==
    /\ AppInit
    /\ uart = <<>>
    /\ ui = NoUi
    /\ \E n \in 0 .. MaxNameSize : ret = NameArrived(n)

cache_own_name ==
    /\ ret.fn = "CL_DM_LOCAL_NAME_COMPLETE"
    /\ ret' = NameCached(ret.size_local_name)
    /\ UNCHANGED <<uart, ui, mainVars>>

NameNext == cache_own_name

NameSpec == NameInit /\ [][NameNext]_vars

(* ------------------------------------------------------------------ *)
(* Vocabulary of the properties                                         *)
(* ------------------------------------------------------------------ *)
ConnectedSlots == {i \in Slots : connection[i].state = "Connected"}

TransitionalSlots ==
    {i \in Slots : connection[i].state \in {"Connecting", "Pairing", "Disconnecting"}}

Unused(i) == connection[i].role = "none" /\ connection[i].state = "Disconnected"

IdleDevice == role = "none" /\ active = NO_ACTIVE /\ \A i \in Slots : connection[i] = ZeroConn

ConnectMaster == Line("connect", "master", 0)

ConnectSlave == Line("connect", "slave", 0)

\* the step is the turn of ui_parser's loop that runs this command line
RunsLine(line) == last'.line = line

\* the step is the handler of this message, run to its end
Handles(id, st) == halt' = "run" /\ last'.id = id /\ last'.st = st /\ last'.line = NoLine

\* the command posts nothing and leaves the orchestrator as it was
Rejected == queue' = queue /\ UNCHANGED appVars

(* ------------------------------------------------------------------ *)
(* C1                                                                   *)
(* ------------------------------------------------------------------ *)
\* C1: in every reachable state conn_count equals the number of slots whose
\* state is Connected.
C1_CountIsConnectedSlots == conn_count = Cardinality(ConnectedSlots)

\* a second connect of a master found no device: slot 0 is still Connected and no
\* slot is on its way down, yet conn_count is back at 0
C1_ConnectedButCountZero ==
    /\ halt = "run"
    /\ last.id = "CL_DM_INQUIRE_RESULT"
    /\ last.st = "ready"
    /\ last.active = 1
    /\ role = "master"
    /\ connection[0].state = "Connected"
    /\ connection[1] = ZeroConn
    /\ conn_count = 0

(* ------------------------------------------------------------------ *)
(* C2                                                                   *)
(* ------------------------------------------------------------------ *)
\* C2: the device role is none if and only if both slots are Disconnected with
\* role none; so the role is none once the last slot in use is back at
\* Disconnected and never none while a slot is Connecting, Connected or
\* Disconnecting.
C2_RoleNoneIffSlotsUnused == (role = "none") <=> (\A i \in Slots : Unused(i))

\* the connect of slot 0 failed at the RFCOMM connect: the slot was reset and the
\* device is back at role none
C2_LastSlotBackRoleNone ==
    /\ halt = "run"
    /\ last.id = "CL_RFCOMM_CLIENT_CONNECT_CFM"
    /\ last.st = "fail"
    /\ last.active = 0
    /\ role = "none"
    /\ \A i \in Slots : Unused(i)

(* ------------------------------------------------------------------ *)
(* C3                                                                   *)
(* ------------------------------------------------------------------ *)
\* C3: in every reachable state at most one slot is Connecting, Pairing or
\* Disconnecting, and app->active names that slot or is NO_ACTIVE.
C3_OneTransitionalSlot ==
    /\ Cardinality(TransitionalSlots) <= 1
    /\ active = NO_ACTIVE \/ active \in TransitionalSlots

\* two connects of a master run side by side: both slots are Connecting
C3_BothSlotsConnecting ==
    /\ halt = "run"
    /\ role = "master"
    /\ active = 1
    /\ \A i \in Slots : connection[i].state = "Connecting"

(* ------------------------------------------------------------------ *)
(* C4                                                                   *)
(* ------------------------------------------------------------------ *)
\* C4: in every reachable state where the device role is slave, slot 1 has role
\* none and state Disconnected, and the role of slot 0 is none or master.
C4_SlaveOnlySlotZero ==
    role = "slave" => Unused(1) /\ connection[0].role \in {"none", "master"}

\* the device is a slave, connectable on slot 0, while slot 1 is waiting for the
\* inquiry of a master connect
C4_SlaveWithSlotOneInUse ==
    /\ halt = "run"
    /\ role = "slave"
    /\ connection[0].role = "master"
    /\ connection[1].role = "slave"
    /\ connection[1].state = "Connecting"

(* ------------------------------------------------------------------ *)
(* C5                                                                   *)
(* ------------------------------------------------------------------ *)
\* C5: in every reachable state where the device role is master, every slot
\* whose role is not none has role slave.
C5_MasterOnlySlaveSlots ==
    role = "master" => \A i \in Slots : connection[i].role \in {"none", "slave"}

\* the device is a master with slot 0 set up for the slave flow (peer role master)
C5_MasterWithMasterPeer ==
    /\ halt = "run"
    /\ role = "master"
    /\ connection[0].role = "master"
    /\ connection[1].role = "slave"

(* ------------------------------------------------------------------ *)
(* C6                                                                   *)
(* ------------------------------------------------------------------ *)
\* the step handles, to its end, the success confirmation of the client or of the
\* server connect with slot i the active slot
ConnectCompletes(i) ==
    /\ \/ Handles("CL_RFCOMM_CLIENT_CONNECT_CFM", "success")
       \/ Handles("CL_RFCOMM_SERVER_CONNECT_CFM", "success")
    /\ active = i

C7_ConnectRejected ==
    [][/\ RunsLine(ConnectMaster) /\ role = "slave" => Rejected
       /\ RunsLine(ConnectMaster) /\ role = "master"
             /\ (\A i \in Slots : connection[i].role # "none") => Rejected
       /\ RunsLine(ConnectSlave) /\ role # "none" => Rejected]_vars

\* a master with both slots in use, conn_count short of MAX_CONNECTIONS, has just
\* taken another connect master
C7_MasterTakenWithBothSlotsUsed ==
    /\ halt = "run"
    /\ last.line = ConnectMaster
    /\ role = "master"
    /\ \A i \in Slots : connection[i].role # "none"
    /\ queue # <<>>
    /\ queue[Len(queue)].id = "MSG_CONNECT_MASTER"

(* ------------------------------------------------------------------ *)
(* C8                                                                   *)
(* ------------------------------------------------------------------ *)
\* connect slave has been taken and its flow is not over: MSG_CONNECT_SLAVE waits
\* in the queue, or the device is a slave whose slot 0 is Connecting
SlaveFlowOpen ==
    \/ \E k \in 1 .. Len(queue) : queue[k].id = "MSG_CONNECT_SLAVE"
    \/ role = "slave" /\ connection[0].state = "Connecting"

\* C8: a connect master that is run while the flow of an earlier connect slave
\* is not over (its message still queued, or the slot still Connecting) posts
\* no message and changes no state.
C8_MasterRejectedDuringSlaveFlow ==
    [][RunsLine(ConnectMaster) /\ SlaveFlowOpen => Rejected]_vars

\* both lines came in one notification: MSG_CONNECT_MASTER is queued right
\* behind MSG_CONNECT_SLAVE
C8_MasterQueuedBehindSlave ==
    /\ halt = "run"
    /\ last.line = ConnectMaster
    /\ Len(queue) >= 2
    /\ queue[Len(queue) - 1].id = "MSG_CONNECT_SLAVE"
    /\ queue[Len(queue)].id = "MSG_CONNECT_MASTER"

(* ------------------------------------------------------------------ *)
(* C9                                                                   *)
(* ------------------------------------------------------------------ *)
\* both slots hold a link the device has set up as master
TwoMasterLinks ==
    /\ role = "master"
    /\ \A i \in Slots : connection[i].state = "Connected" /\ connection[i].role = "slave"

\* C9: whenever both slots are Connected after two master connects, conn_count
\* is 2 and a further connect master posts nothing and changes no state.
C9_FullMasterRejectsConnect ==
    [][TwoMasterLinks =>
          /\ conn_count = MAX_CONNECTIONS
          /\ RunsLine(ConnectMaster) => Rejected]_vars

\* with both slots Connected and conn_count at 1 a third connect master has been
\* taken
C9_ThirdConnectTaken ==
    /\ halt = "run"
    /\ last.line = ConnectMaster
    /\ TwoMasterLinks
    /\ conn_count = 1
    /\ queue # <<>>
    /\ queue[Len(queue)].id = "MSG_CONNECT_MASTER"

(* ------------------------------------------------------------------ *)
(* C10                                                                  *)
(* ------------------------------------------------------------------ *)
\* the inquiry of the connect on slot 0 is complete and no address was cached
DiscoveryCompleteNoAddress ==
    /\ Handles("CL_DM_INQUIRE_RESULT", "ready")
    /\ role = "master"
    /\ active = 0
    /\ connection[0] = [ZeroConn EXCEPT !.role = "slave", !.state = "Connecting"]
    /\ Unused(1)

\* C10: with the device role none and both slots unused, connect master is
\* taken (MSG_CONNECT_MASTER is posted) and its handler makes slot 0 Connecting
\* with role slave; when the inquiry then completes with no address cached in
\* the active slot, slot 0 is Disconnected with role none again, app->active is
\* NO_ACTIVE and the device role is none.
C10_ConnectMasterNoDevice ==
    [][/\ IdleDevice /\ RunsLine(ConnectMaster) =>
             queue' = Append(queue, AppMsg("MSG_CONNECT_MASTER"))
       /\ IdleDevice /\ Handles("MSG_CONNECT_MASTER", "app") =>
             /\ role' = "master"
             /\ active' = 0
             /\ connection' = [connection EXCEPT ![0].state = "Connecting",
                                                 ![0].role = "slave"]
       /\ DiscoveryCompleteNoAddress =>
             /\ connection'[0] = ZeroConn
             /\ active' = NO_ACTIVE
             /\ role' = "none"]_vars

\* the inquiry of slot 0 has just completed without a device and the device is
\* idle again
C10_BackToIdleAfterDiscovery ==
    /\ halt = "run"
    /\ last.id = "CL_DM_INQUIRE_RESULT"
    /\ last.st = "ready"
    /\ last.active = 0
    /\ IdleDevice
    /\ pend["sm_register_outgoing"] = 0
    /\ conn_count = 0

(* ------------------------------------------------------------------ *)
(* C11                                                                  *)
(* ------------------------------------------------------------------ *)
DisconnectAll == Line("disconnect", "", NO_LINK_ID)

\* slot 0 holds a link, up or on its way down at the device's request, and slot 1
\* is Disconnected
OnlySlotZeroLinked ==
    /\ connection[0].state \in {"Connected", "Disconnecting"}
    /\ connection[0].sink # 0
    /\ connection[1].state = "Disconnected"

\* C11: disconnect without an id, run while slot 0 is Connected and slot 1 is
\* Disconnected, posts exactly one MSG_DISCONNECT, for slot 0; and the handler
\* of the remote disconnect indication for the sink of slot 0, run before or
\* after that MSG_DISCONNECT has been handled, leaves slot 0 Disconnected with
\* role none and the device role none.
C11_DisconnectAllThenIndication ==
    [][/\ RunsLine(DisconnectAll) /\ connection[0].state = "Connected"
             /\ connection[1].state = "Disconnected" =>
             queue' = Append(queue, MSG_DISCONNECT_T(0))
       /\ Handles("CL_RFCOMM_DISCONNECT_IND", "ind") /\ OnlySlotZeroLinked
             /\ Head(queue).sink = connection[0].sink =>
             connection'[0] = ZeroConn /\ role' = "none"]_vars

\* the indication for slot 0 came after disconnect() had run: it has been
\* handled and slot 0 is still Disconnecting
C11_IndicationIgnored ==
    /\ halt = "run"
    /\ last.id = "CL_RFCOMM_DISCONNECT_IND"
    /\ connection[0].state = "Disconnecting"
    /\ connection[1].state = "Disconnected"
    /\ role # "none"
    /\ ~\E k \in 1 .. Len(queue) : queue[k].id = "CL_RFCOMM_DISCONNECT_IND"

(* ------------------------------------------------------------------ *)
(* C12                                                                  *)
(* ------------------------------------------------------------------ *)
DisconnectId(n) == Line("disconnect", "id", n)

\* one MSG_DISCONNECT per Connected slot, in slot order
DisconnectEachConnected ==
    (IF connection[0].state = "Connected" THEN <<MSG_DISCONNECT_T(0)>> ELSE <<>>)
        \o (IF connection[1].state = "Connected" THEN <<MSG_DISCONNECT_T(1)>> ELSE <<>>)

\* C12: disconnect without an id posts exactly one MSG_DISCONNECT for each
\* Connected slot and none for any other; disconnect with an id posts a
\* MSG_DISCONNECT for that slot if and only if the id is below MAX_CONNECTIONS
\* and the slot is Connected, and posts nothing otherwise.
C12_DisconnectPostsForConnected ==
    [][/\ RunsLine(DisconnectAll) => queue' = queue \o DisconnectEachConnected
       /\ \A n \in (0 .. MaxLinkId) \cup {NO_LINK_ID} :
            RunsLine(DisconnectId(n)) =>
                queue' = IF n \in Slots /\ connection[n].state = "Connected"
                         THEN Append(queue, MSG_DISCONNECT_T(n))
                         ELSE queue]_vars

\* slot 0 is Connected, conn_count is 0, and disconnect 0 has just been run and
\* posted nothing
C12_ConnectedNotDisconnected ==
    /\ halt = "run"
    /\ last.line = DisconnectId(0)
    /\ connection[0].state = "Connected"
    /\ conn_count = 0
    /\ ~\E k \in 1 .. Len(queue) : queue[k].id = "MSG_DISCONNECT"

(* ------------------------------------------------------------------ *)
(* C13                                                                  *)
(* ------------------------------------------------------------------ *)
Tx(n) == Line("tx", "value", n)

\* C13: a tx command with a slot id below MAX_CONNECTIONS and a value that
\* parses writes to the sink of that slot, and of no other, if and only if the
\* slot is Connected; for a slot that is not Connected nothing is written.
C13_TxWritesIffConnected ==
    [][\A n \in Slots :
         RunsLine(Tx(n)) =>
             last'.tx = IF connection[n].state = "Connected" THEN {n} ELSE {}]_vars

\* slot 0 is Connected, conn_count is 0, and tx 0 has just been run without a
\* write
C13_ConnectedNotWritten ==
    /\ halt = "run"
    /\ last.line = Tx(0)
    /\ last.tx = {}
    /\ connection[0].state = "Connected"
    /\ conn_count = 0

(* ------------------------------------------------------------------ *)
(* C14                                                                  *)
(* ------------------------------------------------------------------ *)
\* link ids that name no slot
OutOfRange == (MAX_CONNECTIONS .. MaxLinkId) \cup {NO_LINK_ID}

\* the step ran a line that matches no command, a command whose parameters do
\* not parse, or a disconnect or tx for a link id out of range or for a slot
\* that is not Connected
RunsErrorLine ==
    \/ RunsLine(Line("bogus", "", 0))
    \/ RunsLine(Line("connect", "", 0))
    \/ \E n \in OutOfRange : RunsLine(DisconnectId(n))
    \/ \E n \in MAX_CONNECTIONS .. MaxLinkId : RunsLine(Tx(n))
    \/ \E n \in Slots :
         /\ connection[n].state # "Connected"
         /\ RunsLine(DisconnectId(n)) \/ RunsLine(Tx(n))

\* C14: a line that matches no command, a command whose parameters fail to
\* parse, and a disconnect or tx naming a link id out of range or a slot that is
\* not Connected leave the slots, the device role, conn_count and active as
\* they were, post no message and write to no sink.
C14_ErrorLineChangesNothing ==
    [][RunsErrorLine => Rejected /\ last'.tx = {}]_vars

\* disconnect 0xFFFF has just been run with slot 0 Connected and the
\* MSG_DISCONNECT for slot 0 is in the queue
C14_OutOfRangeDisconnects ==
    /\ halt = "run"
    /\ last.line = DisconnectId(NO_LINK_ID)
    /\ connection[0].state = "Connected"
    /\ queue # <<>>
    /\ queue[Len(queue)] = MSG_DISCONNECT_T(0)

(* ------------------------------------------------------------------ *)
(* C15                                                                  *)
(* ------------------------------------------------------------------ *)
ConnectingSlots == {i \in Slots : connection[i].state = "Connecting"}

\* the step handles, to its end, a failure of the connect of slot i: the inquiry
\* is complete with no address cached in the slot, the search failed or gave
\* no channel, the client or the server connect failed, the slave timeout fired
FailureHandled(i) ==
    \/ Handles("CL_DM_INQUIRE_RESULT", "ready") /\ connection[i].addr = 0
    \/ Handles("CL_SDP_SERVICE_SEARCH_ATTRIBUTE_CFM", "fail")
    \/ Handles("CL_SDP_SERVICE_SEARCH_ATTRIBUTE_CFM", "nochannel")
    \/ Handles("CL_RFCOMM_CLIENT_CONNECT_CFM", "fail")
    \/ Handles("CL_RFCOMM_SERVER_CONNECT_CFM", "fail")
    \/ Handles("MSG_SLAVE_CONNECTION_TIMEOUT", "app")

\* C15: after a protocol failure is handled while slot i is the one slot in
\* Connecting, slot i is in its reset form, the other slot is unchanged,
\* app->active is NO_ACTIVE and the device role is none if the other slot is
\* not in use.
C15_FailureResetsSlot ==
    [][\A i \in Slots :
         FailureHandled(i) /\ ConnectingSlots = {i} =>
             /\ connection' = [connection EXCEPT ![i] = ZeroConn]
             /\ active' = NO_ACTIVE
             /\ Unused(1 - i) => role' = "none"]_vars

\* the search of a master connect failed after a disconnect had set app->active
\* to NO_ACTIVE: the failure has been handled and the slot is still Connecting
C15_ConnectingSlotLeftBehind ==
    /\ halt = "run"
    /\ last.id = "CL_SDP_SERVICE_SEARCH_ATTRIBUTE_CFM"
    /\ last.st = "fail"
    /\ last.active = NO_ACTIVE
    /\ active = NO_ACTIVE
    /\ ConnectingSlots # {}
    /\ pend["sdp_search"] = 0
    /\ pend["rfcomm_connect"] = 0

(* ------------------------------------------------------------------ *)
(* C16                                                                  *)
(* ------------------------------------------------------------------ *)
StartupConfirmations ==
    {"CL_INIT_CFM", "CL_DM_LOCAL_BD_ADDR_CFM", "CL_DM_LOCAL_NAME_COMPLETE",
     "CL_RFCOMM_REGISTER_CFM"}

ConnectConfirmations == {"CL_RFCOMM_CLIENT_CONNECT_CFM", "CL_RFCOMM_SERVER_CONNECT_CFM"}

\* C16: a handler ends in Panic only when its message is a failed confirmation
\* of the startup chain or a success connect confirmation with a null sink.
C16_PanicOnlyStartupOrNullSink ==
    [][halt = "run" /\ halt' = "panic" =>
          \/ Head(queue).id \in StartupConfirmations /\ Head(queue).st # "success"
          \/ /\ Head(queue).id \in ConnectConfirmations
             /\ Head(queue).st = "success"
             /\ Head(queue).sink = 0]_vars

\* the registration of the service record failed in the slave flow and the
\* application has stopped in Panic
C16_PanicOnRegisterFailure ==
    /\ halt = "panic"
    /\ last.id = "CL_SDP_REGISTER_CFM"
    /\ last.st = "fail"
    /\ last.active = 0

(* ------------------------------------------------------------------ *)
(* Vocabulary of the lexer's properties                                 *)
(* ------------------------------------------------------------------ *)
Min(S) == CHOOSE x \in S : \A y \in S : x <= y

\* the first position of u from a on that is behind the line or not in S
RunEnd(u, a, S) == Min({k \in a .. Len(u) + 1 : k = Len(u) + 1 \/ u[k] \notin S})

\* the token at the start of the line: what lies between the leading blanks
\* and the next blank
TokenStart(u) == RunEnd(u, 1, {" "})

Token(u) == SubSeq(u, TokenStart(u), RunEnd(u, TokenStart(u), Characters \ {" "}) - 1)

HexLetters == {"a", "b", "c", "d", "e", "f", "A", "B", "C", "D", "E", "F"}

HexChars == Range(DecDigits) \cup HexLetters

DigitValue(c) ==
    IF c \in Range(DecDigits) THEN IndexOf(DecDigits, c) - 1
    ELSE IF c \in Range(LowerCase) THEN 9 + IndexOf(LowerCase, c)
    ELSE 9 + IndexOf(UpperCase, c)

\* the number a sequence of digits denotes in a base
RECURSIVE Numeral(_, _)
Numeral(d, base) ==
    IF d = <<>> THEN 0
    ELSE Numeral(SubSeq(d, 1, Len(d) - 1), base) * base + DigitValue(d[Len(d)])

\* the last n digits of d, or all of d
LastDigits(d, n) == SubSeq(d, IF Len(d) > n THEN Len(d) - n + 1 ELSE 1, Len(d))

\* what hex digits denote modulo 2^16 and modulo 2^8: 16^4 = 2^16, 16^2 = 2^8
Hex16(d) == Numeral(LastDigits(d, 4), 16)

Hex8(d) == Numeral(LastDigits(d, 2), 16)

\* what decimal digits denote modulo 2^8: 2^8 divides 10^8
Dec8(d) == Numeral(LastDigits(d, 8), 10) % 256

HexPrefix(u, a) == a + 1 <= Len(u) /\ u[a] = "0" /\ u[a + 1] \in {"x", "X"}

(* ------------------------------------------------------------------ *)
(* C17                                                                  *)
(* ------------------------------------------------------------------ *)
Fold(c) == IF c \in Range(UpperCase) THEN LowerCase[IndexOf(UpperCase, c)] ELSE c

\* tok is, but for case, a prefix of cmd that covers its upper-case letters
Abbreviates(tok, cmd) ==
    /\ Len(tok) <= Len(cmd)
    /\ \A k \in 1 .. Len(tok) : Fold(tok[k]) = Fold(cmd[k])
    /\ \A k \in 1 .. Len(cmd) : cmd[k] \in Range(UpperCase) => k <= Len(tok)

\* C17: cmdcmp returns 0 for a line and a command exactly when the token of the
\* line is, compared without case, a prefix of the command that covers all of
\* its upper-case letters; a longer token or one that differs in a letter does
\* not match.
C17_KeywordMatches ==
    ret.fn = "cmdcmp" => (ret.rc = 0 <=> Abbreviates(Token(uart), ret.cmd))

\* the token tx followed by a NUL character has matched the command TX
C17_MatchBehindTerminator ==
    /\ ret.fn = "cmdcmp"
    /\ ret.cmd = <<"T", "X">>
    /\ uart = <<"t", "x", "NUL">>
    /\ ret.rc = 0
    /\ ret.endp = uart_end(uart)

(* ------------------------------------------------------------------ *)
(* C18                                                                  *)
(* ------------------------------------------------------------------ *)
\* behind the blanks the line has 0x or 0X and at least one hex digit
HexToken(u) ==
    LET a == TokenStart(u) IN
    HexPrefix(u, a) /\ a + 2 <= Len(u) /\ u[a + 2] \in HexChars

\* behind the blanks the line has a decimal digit that does not open 0x or 0X
DecToken(u) ==
    LET a == TokenStart(u) IN
    a <= Len(u) /\ u[a] \in Range(DecDigits) /\ ~HexPrefix(u, a)

\* C18: cmd_parse_num skips the leading blanks; for 0x or 0X and hex digits it
\* returns the value of the digits modulo 2^16 with the cursor behind the last
\* hex digit; for a decimal number it returns its value (where 16 bits hold
\* it) with the cursor behind the last decimal digit.
C18_NumberParsed ==
    ret.fn = "cmd_parse_num" =>
        LET a == TokenStart(uart)
            he == RunEnd(uart, a + 2, HexChars)
            de == RunEnd(uart, a, Range(DecDigits))
        IN /\ HexToken(uart) =>
                /\ ret.ok
                /\ ret.num = Hex16(SubSeq(uart, a + 2, he - 1))
                /\ ret.endp = he
           /\ DecToken(uart) =>
                /\ ret.ok
                /\ ret.endp = de
                /\ de - a <= 5 /\ Numeral(SubSeq(uart, a, de - 1), 10) < UINT16 =>
                       ret.num = Numeral(SubSeq(uart, a, de - 1), 10)

\* 0x1A has been parsed: 26, the cursor at the end of the line
C18_HexParsed ==
    /\ ret.fn = "cmd_parse_num"
    /\ uart = <<"0", "x", "1", "A">>
    /\ ret.ok
    /\ ret.num = 26
    /\ ret.endp = uart_end(uart)

(* ------------------------------------------------------------------ *)
(* C19                                                                  *)
(* ------------------------------------------------------------------ *)
\* the line has no number: it is empty or blank, or behind the blanks there is
\* no decimal digit, or 0x or 0X and a character that is no hex digit
NoValidDigits(u) ==
    LET a == TokenStart(u) IN
    \/ a > Len(u)
    \/ u[a] \notin Range(DecDigits)
    \/ HexPrefix(u, a) /\ a + 2 <= Len(u) /\ u[a + 2] \notin HexChars

\* C19: for a line with no valid digits cmd_parse_num fails and leaves the
\* cursor where it was.
C19_NoDigitsFails ==
    ret.fn = "cmd_parse_num" /\ NoValidDigits(uart) => ~ret.ok /\ ret.endp = 1

\* 0x followed by xyz has been parsed as the number 0, the cursor behind 0x
C19_HexPrefixAccepted ==
    /\ ret.fn = "cmd_parse_num"
    /\ uart = <<"0", "x", "x", "y", "z">>
    /\ ret.ok
    /\ ret.num = 0
    /\ ret.endp = 3

(* ------------------------------------------------------------------ *)
(* C20                                                                  *)
(* ------------------------------------------------------------------ *)
Quotes(u, k) == Cardinality({j \in 1 .. k : u[j] = "\""})

\* position k holds a blank outside quotes, which separates two tokens
Separator(u, k) == u[k] = " " /\ Quotes(u, k) % 2 = 0

ValueTokenStarts(u) ==
    {a \in 1 .. Len(u) : ~Separator(u, a) /\ (a = 1 \/ Separator(u, a - 1))}

ValueToken(u, a) ==
    SubSeq(u, a, Min({b \in a .. Len(u) : b = Len(u) \/ Separator(u, b + 1)}))

QuotedRun(tok) ==
    /\ Len(tok) >= 2
    /\ tok[1] = "\""
    /\ tok[Len(tok)] = "\""
    /\ \A k \in 2 .. Len(tok) - 1 : tok[k] # "\""

\* a quote that is opened and not closed
OpenRun(tok) ==
    /\ Len(tok) >= 1
    /\ tok[1] = "\""
    /\ \A k \in 2 .. Len(tok) : tok[k] # "\""

NumericToken(tok) ==
    \/ Len(tok) >= 1 /\ \A k \in 1 .. Len(tok) : tok[k] \in Range(DecDigits)
    \/ /\ Len(tok) >= 3
       /\ HexPrefix(tok, 1)
       /\ \A k \in 3 .. Len(tok) : tok[k] \in HexChars

TokenBytes(tok) ==
    IF QuotedRun(tok) THEN [k \in 1 .. Len(tok) - 2 |-> CharCode[tok[k + 1]]]
    ELSE IF HexPrefix(tok, 1) THEN <<Hex8(SubSeq(tok, 3, Len(tok)))>>
    ELSE <<Dec8(tok)>>

\* the bytes of the tokens that start at the positions S, in the order of the line
RECURSIVE ValueOf(_, _)
ValueOf(u, S) ==
    IF S = {} THEN <<>>
    ELSE TokenBytes(ValueToken(u, Min(S))) \o ValueOf(u, S \ {Min(S)})

\* the line is a sequence of quoted runs and numbers separated by blanks
TokenSequence(u) ==
    \A a \in ValueTokenStarts(u) : QuotedRun(ValueToken(u, a)) \/ NumericToken(ValueToken(u, a))

\* the line is such a sequence followed by a quote that is not closed
Unterminated(u) ==
    /\ \E a \in ValueTokenStarts(u) : OpenRun(ValueToken(u, a))
    /\ \A a \in ValueTokenStarts(u) :
         QuotedRun(ValueToken(u, a)) \/ NumericToken(ValueToken(u, a))
             \/ OpenRun(ValueToken(u, a))

\* C20: for a line of quoted runs and numbers separated by blanks
\* cmd_parse_value returns the bytes of the quoted runs and the low 8 bits of
\* the numbers in the order of the line; for a line that ends in a quote that
\* is not closed it fails, returns no buffer and keeps no allocation.
C20_ValueParsed ==
    ret.fn = "cmd_parse_value" =>
        LET v == ValueOf(uart, ValueTokenStarts(uart))
        IN /\ TokenSequence(uart) =>
                /\ ret.bytes = v
                /\ ret.len = Len(v)
                /\ v # <<>> => ret.ok /\ ~ret.null /\ ret.live = 1
           /\ Unterminated(uart) =>
                ~ret.ok /\ ret.null /\ ret.len = 0 /\ ret.live = 0

\* "hi" 0x41 has been parsed: the three bytes h, i and 0x41 in a buffer
C20_StringAndNumber ==
    /\ ret.fn = "cmd_parse_value"
    /\ uart = <<"\"", "h", "i", "\"", " ", "0", "x", "4", "1">>
    /\ ret.ok
    /\ ret.bytes = <<104, 105, 65>>
    /\ ret.len = 3
    /\ ret.live = 1


(* ------------------------------------------------------------------ *)
(* C21                                                                  *)
(* ------------------------------------------------------------------ *)
\* C21: cmd_parse_value fails whenever it has produced no byte (an empty or
\* blank line, an empty pair of quotes), and a tx command whose value has no
\* byte returns FALSE, for the invalid-parameters error, and writes to no sink.
C21_NoBytesFails ==
    /\ ret.fn = "cmd_parse_value" /\ ret.len = 0 => ~ret.ok
    /\ ret.fn = "cmd_tx" /\ ret.len = 0 => ~ret.ok /\ ret.tx = {}

\* tx 0 "" has been run with slot 0 Connected: cmd_tx returned TRUE and went
\* through the write with no bytes
C21_EmptyPayloadSent ==
    /\ ret.fn = "cmd_tx"
    /\ uart = <<"0", " ", "\"", "\"">>
    /\ ret.ok
    /\ ret.path = "written"
    /\ ret.tx = {0}
    /\ ret.len = 0

(* ------------------------------------------------------------------ *)
(* C22                                                                  *)
(* ------------------------------------------------------------------ *)
\* C22: when cmd_tx returns, on any of its ways (the link id or the value does
\* not parse, no connections, link id out of range, slot not Connected, the
\* write done, SinkClaim or SinkMap failed), no buffer of the value parser is
\* still allocated and none has been freed twice; the same holds when
\* cmd_parse_value itself has failed.
C22_BufferReleasedOnce ==
    /\ ret.fn = "cmd_tx" => ret.live = 0 /\ ret.bad = 0
    /\ ret.fn = "cmd_parse_value" /\ ~ret.ok => ret.live = 0 /\ ret.bad = 0

\* tx 0 "hi" has written the two bytes to slot 0 and the buffer is released
C22_WrittenAndReleased ==
    /\ ret.fn = "cmd_tx"
    /\ uart = <<"0", " ", "\"", "h", "i", "\"">>
    /\ ret.path = "written"
    /\ ret.bytes = <<104, 105>>
    /\ ret.live = 0
    /\ ret.bad = 0

(* ------------------------------------------------------------------ *)
(* C23                                                                  *)
(* ------------------------------------------------------------------ *)
Terminator(c) == c \in {"CR", "LF"}

Echoed(s) == SelectSeq(s, LAMBDA c : ~Terminator(c))

\* the complete lines of s, where CR, LF and the pair CR LF each end a line;
\* cur is the line that has been started
RECURSIVE SplitLines(_, _)
SplitLines(s, cur) ==
    IF s = <<>> THEN <<>>
    ELSE IF Len(s) >= 2 /\ s[1] = "CR" /\ s[2] = "LF"
         THEN <<cur>> \o SplitLines(SubSeq(s, 3, Len(s)), <<>>)
    ELSE IF Terminator(s[1]) THEN <<cur>> \o SplitLines(Tail(s), <<>>)
    ELSE SplitLines(Tail(s), Append(cur, s[1]))

IsPrefix(a, b) == Len(a) <= Len(b) /\ a = SubSeq(b, 1, Len(a))

\* all bytes have arrived and ui_parser has run on them
AllParsed == ui.rest = <<>> /\ ~ui.more

\* C23: however the bytes are split over the notifications, the bytes that are
\* no terminators are echoed once each, in order, and command_parse is run
\* once for each line that CR, LF or CR LF ends, on the bytes of that line, in
\* the order of arrival; CR LF does not make a second command run.
C23_OneCommandPerLine ==
    /\ IsPrefix(ui.echo, Echoed(ui.all))
    /\ IsPrefix(ui.cmds, SplitLines(ui.all, <<>>))
    /\ AllParsed => ui.echo = Echoed(ui.all) /\ ui.cmds = SplitLines(ui.all, <<>>)

\* a CR LF arrived with the CR at the end of one notification and the LF in
\* the next: command_parse has run on the line and once more on an empty line
C23_SplitPairRunsTwice ==
    /\ AllParsed
    /\ ui.all = <<"a", "CR", "LF">>
    /\ ui.cmds = <<<<"a">>, <<>>>>
    /\ ui.echo = <<"a">>

(* ------------------------------------------------------------------ *)
(* C24                                                                  *)
(* ------------------------------------------------------------------ *)
\* the step is the handler of the message at the head of the queue
HandlesHead(id) == Handling(id) /\ last'.id = id /\ last'.line = NoLine

\* C24: whenever MSG_CONNECT_MASTER is handled, a slot with role none is there
\* for it and the handler does not end in Panic.
C24_ConnectMasterFindsSlot ==
    [][HandlesHead("MSG_CONNECT_MASTER") =>
          /\ \E i \in Slots : connection[i].role = "none"
          /\ halt' = "run"]_vars

\* connect_master has found no slot and no active slot: the application has
\* stopped in Panic
C24_ConnectMasterPanics ==
    /\ halt = "panic"
    /\ last.id = "MSG_CONNECT_MASTER"
    /\ last.active = NO_ACTIVE

(* ------------------------------------------------------------------ *)
(* C25                                                                  *)
(* ------------------------------------------------------------------ *)
\* a connect transition of slot i is in flight
ConnectInFlight(i) == active = i /\ connection[i].state = "Connecting"

\* the step handles a disconnect request, a disconnect confirmation, a remote
\* disconnect indication or a further connect request that is not about slot i
ConcernsOtherSlot(i) ==
    \/ HandlesHead("MSG_DISCONNECT") /\ Head(queue).link_id # i
    \/ /\ HandlesHead("CL_RFCOMM_DISCONNECT_CFM") \/ HandlesHead("CL_RFCOMM_DISCONNECT_IND")
       /\ \E j \in Slots \ {i} : Head(queue).sink = connection[j].sink
       /\ Head(queue).sink # connection[i].sink
    \/ HandlesHead("MSG_CONNECT_MASTER")
    \/ HandlesHead("MSG_CONNECT_SLAVE")

\* C25: while the connect transition of slot i is in flight, a disconnect request,
\* disconnect confirmation, disconnect indication or connect request about
\* another slot leaves the active-slot pointer at i.
C25_ActiveStaysWithTransition ==
    [][\A i \in Slots :
          ConnectInFlight(i) /\ ConcernsOtherSlot(i) => active' = i]_vars

\* a disconnect request for the other slot has been handled while slot i was
\* Connecting: slot i is still Connecting and the pointer is NO_ACTIVE
C25_DisconnectClearsActive ==
    /\ last.id = "MSG_DISCONNECT"
    /\ last.active \in Slots
    /\ active = NO_ACTIVE
    /\ connection[last.active].state = "Connecting"
    /\ \E j \in Slots \ {last.active} : connection[j].state = "Disconnecting"

(* ------------------------------------------------------------------ *)
(* C26                                                                  *)
(* ------------------------------------------------------------------ *)
\* the step resets a slot that was Connected, or Disconnecting (which a slot is
\* only after it was Connected)
ResetsConnectedSlot ==
    \E i \in Slots : /\ connection[i].state \in {"Connected", "Disconnecting"}
                     /\ connection'[i].state = "Disconnected"

\* C26: in a step of the running application the connected-slot count goes down
\* if and only if the slot that is reset was Connected (or Disconnecting after
\* it); the reset of a slot that never was Connected leaves the count alone.
C26_CountFollowsConnected ==
    [][halt' = "run" => (conn_count' < conn_count <=> ResetsConnectedSlot)]_vars

\* the inquiry of a second connect has ended without a device: the Connecting
\* slot has been reset, the other slot is Connected and the count is 0
C26_FailedConnectCountsDown ==
    /\ last.id = "CL_DM_INQUIRE_RESULT"
    /\ last.st = "ready"
    /\ last.active \in Slots
    /\ active = NO_ACTIVE
    /\ connection[last.active] = ZeroConn
    /\ ConnectedSlots # {}
    /\ conn_count = 0

(* ------------------------------------------------------------------ *)
(* C27                                                                  *)
(* ------------------------------------------------------------------ *)
\* the step is one of the ways the slave flow ends: the terminal confirmation of
\* the accept, with success or with failure, or the timeout
SlaveFlowEnds ==
    \/ Handles("CL_RFCOMM_SERVER_CONNECT_CFM", "success")
    \/ Handles("CL_RFCOMM_SERVER_CONNECT_CFM", "fail")
    \/ Handles("MSG_SLAVE_CONNECTION_TIMEOUT", "app")

\* C27: behind every end of the slave flow, the failed accept included,
\* discoverability is off and the service record is unregistered; the failed
\* accept also resets slot 0.
C27_SlaveFlowEndsHidden ==
    [][/\ SlaveFlowEnds => ~scan' /\ ~sdpRecord'
       /\ Handles("CL_RFCOMM_SERVER_CONNECT_CFM", "fail") => connection'[0] = ZeroConn]_vars

\* the accept has failed: slot 0 is reset, the device is still discoverable and
\* the service record is still registered
C27_FailedAcceptStaysVisible ==
    /\ halt = "run"
    /\ last.id = "CL_RFCOMM_SERVER_CONNECT_CFM"
    /\ last.st = "fail"
    /\ last.active = 0
    /\ connection[0] = ZeroConn
    /\ scan
    /\ sdpRecord

(* ------------------------------------------------------------------ *)
(* C28                                                                  *)
(* ------------------------------------------------------------------ *)
\* slot 0 is in the slave flow and no connect indication has been accepted for it
SlaveWaiting ==
    /\ connection[0].state = "Connecting"
    /\ connection[0].role = "master"
    /\ connection[0].sink = 0

\* C28: discoverability is switched on and the timeout is armed only by the
\* handler of the successful service-record confirmation; and the timeout that
\* fires while slot 0 waits for an indication switches discoverability off,
\* unregisters the record, resets slot 0 and returns the device role to none.
C28_SlaveTimeoutResetsSlot0 ==
    [][/\ (~scan /\ scan') \/ timer' > timer => Handles("CL_SDP_REGISTER_CFM", "success")
       /\ SlaveWaiting /\ Handles("MSG_SLAVE_CONNECTION_TIMEOUT", "app") =>
             /\ ~scan'
             /\ ~sdpRecord'
             /\ connection'[0] = ZeroConn
             /\ role' = "none"]_vars

\* the timeout has been handled with the pointer at slot 1: slot 0 still waits
\* in the slave flow
C28_TimeoutLeavesSlot0Connecting ==
    /\ halt = "run"
    /\ last.id = "MSG_SLAVE_CONNECTION_TIMEOUT"
    /\ SlaveWaiting
    /\ ~scan

(* ------------------------------------------------------------------ *)
(* C29                                                                  *)
(* ------------------------------------------------------------------ *)
\* no MSG_SLAVE_CONNECTION_TIMEOUT is waiting, neither due nor to come
NoTimeoutLeft(q, t) ==
    t = 0 /\ \A k \in 1 .. Len(q) : q[k].id # "MSG_SLAVE_CONNECTION_TIMEOUT"

\* C29: the accepted connect indication leaves no timeout behind; and the
\* timeout handler runs neither with slot 0 Connected nor with the active-slot
\* pointer at none, and the slot it resets is slot 0, Connecting in the slave
\* flow.
C29_TimeoutOnlyForWaitingSlave ==
    [][/\ Handles("CL_RFCOMM_CONNECT_IND", "ind") /\ connect_ind_expected(MAIN_APP_T)
             => NoTimeoutLeft(queue', timer')
       /\ Handles("MSG_SLAVE_CONNECTION_TIMEOUT", "app") =>
             /\ connection[0].state # "Connected"
             /\ active # NO_ACTIVE
             /\ active = 0
             /\ connection[0].state = "Connecting"
             /\ connection[0].role = "master"]_vars

\* the timeout handler has run behind the end of the accept: slot 0 is Connected
\* as a slave link and the pointer was at none
C29_TimeoutWhileConnected ==
    /\ halt = "run"
    /\ last.id = "MSG_SLAVE_CONNECTION_TIMEOUT"
    /\ last.active = NO_ACTIVE
    /\ role = "slave"
    /\ connection[0].state = "Connected"

(* ------------------------------------------------------------------ *)
(* C30                                                                  *)
(* ------------------------------------------------------------------ *)
\* C30: the link-closed indication that carries the peer address of a
\* Disconnecting slot resets that slot to Disconnected.
C30_AclClosedResetsDisconnecting ==
    [][\A i \in Slots :
          /\ Handles("CL_DM_ACL_CLOSED_IND", "ind")
          /\ connection[i].state = "Disconnecting"
          /\ connection[i].addr = Head(queue).addr
          => connection'[i].state = "Disconnected"]_vars

\* the link-closed indication has been handled (its address is the one of
\* Addrs, that of the slot) and the slot is Disconnecting as before
C30_AclClosedIgnored ==
    /\ halt = "run"
    /\ last.id = "CL_DM_ACL_CLOSED_IND"
    /\ last.active = NO_ACTIVE
    /\ acl = {}
    /\ \E i \in Slots : /\ connection[i].state = "Disconnecting"
                         /\ \A b \in Addrs : connection[i].addr = b

(* ------------------------------------------------------------------ *)
(* C31                                                                  *)
(* ------------------------------------------------------------------ *)
\* the step sends a request of this kind to the connection library
Issues(kind) == pend'[kind] > pend[kind]

\* the active slot holds an address
AddressCached == active \in Slots /\ connection[active].addr # 0

\* C31: the requests of the master flow are issued by the handler of the
\* previous step only: the inquiry by MSG_CONNECT_MASTER, the outbound security
\* registration by the end of the inquiry with an address cached in the active
\* slot, the search by the confirmation of the registration, and the transport
\* connect by the successful search.
C31_MasterRequestsInOrder ==
    [][/\ Issues("inquire") => Handles("MSG_CONNECT_MASTER", "app")
       /\ Issues("sm_register_outgoing") =>
             Handles("CL_DM_INQUIRE_RESULT", "ready") /\ AddressCached
       /\ Issues("sdp_search") => last'.id = "CL_SM_REGISTER_OUTGOING_SERVICE_CFM"
       /\ Issues("rfcomm_connect") =>
             Handles("CL_SDP_SERVICE_SEARCH_ATTRIBUTE_CFM", "success")]_vars

\* the inquiry has ended with the active-slot pointer at none and the outbound
\* security registration has been requested all the same
C31_RegisteredWithoutSlot ==
    /\ halt = "run"
    /\ last.id = "CL_DM_INQUIRE_RESULT"
    /\ last.st = "ready"
    /\ last.active = NO_ACTIVE
    /\ pend["sm_register_outgoing"] > 0

(* ------------------------------------------------------------------ *)
(* C32                                                                  *)
(* ------------------------------------------------------------------ *)
\* C32: MSG_DISCONNECT handled for a slot that is not Connected sends no
\* request to the connection library and changes no slot, nor the count, the
\* device role or the active-slot pointer.
C32_StaleDisconnectChangesNothing ==
    [][HandlesHead("MSG_DISCONNECT")
          /\ connection[Head(queue).link_id].state # "Connected"
       => /\ UNCHANGED <<role, connection, conn_count, active>>
          /\ UNCHANGED <<pend, discPend>>]_vars

\* MSG_DISCONNECT has been handled behind the remote disconnect of its link: no
\* slot has been put into Disconnecting
C32_DisconnectBehindIndication ==
    /\ halt = "run"
    /\ last.id = "MSG_DISCONNECT"
    /\ \A i \in Slots : connection[i].state # "Disconnecting"
    /\ discPend = {}

(* ------------------------------------------------------------------ *)
(* C33                                                                  *)
(* ------------------------------------------------------------------ *)
\* the step is a handler that evaluates ACTIVE, or the trap of its access
HandlesWithACTIVE ==
    /\ halt = "run"
    /\ ~parsing
    /\ queue # <<>>
    /\ UsesACTIVE(Head(queue))
    /\ last'.id = Head(queue).id
    /\ last'.line = NoLine

\* C33: a handler that reads or writes the active slot finds the active-slot
\* pointer at slot 0 or slot 1, never at NO_ACTIVE.
C33_ActiveValidWhenUsed ==
    [][HandlesWithACTIVE => active \in Slots]_vars

\* the inquiry result has been handled with the pointer at NO_ACTIVE and the
\* access past the slots was trapped
C33_InquiryResultWithoutSlot ==
    /\ halt = "fault"
    /\ last.id = "CL_DM_INQUIRE_RESULT"
    /\ last.active = NO_ACTIVE

(* ------------------------------------------------------------------ *)
(* C34                                                                  *)
(* ------------------------------------------------------------------ *)
\* C34: with every message delivered, every request answered and every armed
\* timeout due in the end, a slot that is Connecting does not stay so for
\* ever, and the active-slot pointer returns to none.
C34_ConnectTerminates ==
    /\ \A i \in Slots :
          (connection[i].state = "Connecting") ~> (connection[i].state # "Connecting")
    /\ (active # NO_ACTIVE) ~> (active = NO_ACTIVE)

\* slot 0 is Connecting and nothing is left that could end it: no message
\* queued, no request outstanding, no timeout armed, the pointer at none
C34_ConnectingForEver ==
    /\ halt = "run"
    /\ started
    /\ ~parsing
    /\ connection[0].state = "Connecting"
    /\ active = NO_ACTIVE
    /\ InFlight = 0
    /\ ~scan

(* ------------------------------------------------------------------ *)
(* C35                                                                  *)
(* ------------------------------------------------------------------ *)
\* the step ends the teardown of slot i
TeardownEnds(i) ==
    /\ halt' = "run"
    /\ connection[i].state = "Disconnecting"
    /\ connection'[i].state = "Disconnected"

\* C35: with the disconnect confirmation delivered, a slot that is
\* Disconnecting returns to Disconnected, and the step that returns it takes
\* one from the connected-slot count.
C35_TeardownCompletes ==
    /\ \A i \in Slots :
          (connection[i].state = "Disconnecting") ~> (connection[i].state # "Disconnecting")
    /\ [][\A i \in Slots : TeardownEnds(i) => conn_count' = conn_count - 1]_vars

\* the disconnect confirmation has been handled and has reset the other slot:
\* the slot is Disconnecting still and no confirmation for it is left
C35_ConfirmationResetOtherSlot ==
    /\ halt = "run"
    /\ last.id = "CL_RFCOMM_DISCONNECT_CFM"
    /\ discPend = {}
    /\ \A k \in 1 .. Len(queue) : queue[k].id # "CL_RFCOMM_DISCONNECT_CFM"
    /\ \E i \in Slots : connection[i].state = "Disconnecting"

(* ------------------------------------------------------------------ *)
(* C36                                                                  *)
(* ------------------------------------------------------------------ *)
\* C36: a Disconnected slot is in its zero form (no address, role none, no
\* sink), and a Connected slot has a sink and a role.
C36_SlotForms ==
    \A i \in Slots :
        /\ connection[i].state = "Disconnected" => connection[i] = ZeroConn
        /\ connection[i].state = "Connected" =>
              connection[i].sink # 0 /\ connection[i].role # "none"

\* a link has come up and has been taken down again: the slot that held it is
\* back in its zero form beside a Connected slot
C36_ResetBesideConnected ==
    /\ halt = "run"
    /\ last.id \in {"CL_RFCOMM_DISCONNECT_CFM", "CL_RFCOMM_DISCONNECT_IND"}
    /\ last.active = NO_ACTIVE
    /\ \E i, j \in Slots : /\ connection[i] = ZeroConn
                            /\ connection[j].state = "Connected"
                            /\ connection[j].sink # 0
                            /\ connection[j].role = "slave"

(* ------------------------------------------------------------------ *)
(* C37                                                                  *)
(* ------------------------------------------------------------------ *)
\* C37: the device is discoverable only while its role is slave and slot 0 is
\* Connecting, and with the device role none no service record is registered
\* and discoverability is off.
C37_DiscoverableOnlyInSlaveFlow ==
    /\ scan => role = "slave" /\ connection[0].state = "Connecting"
    /\ role = "none" => ~scan /\ ~sdpRecord

\* the device is idle with nothing in flight, and it is discoverable with its
\* service record registered
C37_IdleAndDiscoverable ==
    /\ halt = "run"
    /\ IdleDevice
    /\ conn_count = 0
    /\ InFlight = 0
    /\ scan
    /\ sdpRecord

(* ------------------------------------------------------------------ *)
(* C38                                                                  *)
(* ------------------------------------------------------------------ *)
\* C38: connect_slave and connect_master run only when the startup chain has
\* ended, that is behind cl_rfcomm_register_cfm.
C38_ConnectOnlyAfterStartup ==
    [][HandlesHead("MSG_CONNECT_SLAVE") \/ HandlesHead("MSG_CONNECT_MASTER")
          => started]_vars

\* connect_slave has run and has sent the service record for registration
\* while the startup chain is still under way
C38_SlaveFlowBeforeStartup ==
    /\ halt = "run"
    /\ ~started
    /\ last.id = "MSG_CONNECT_SLAVE"
    /\ role = "slave"
    /\ connection[0].state = "Connecting"
    /\ pend["sdp_register"] > 0

(* ------------------------------------------------------------------ *)
(* C39                                                                  *)
(* ------------------------------------------------------------------ *)
\* C39: whatever the size of the reported name, the bytes copied and the
\* terminating NUL are stored at indices of own_name, 0 to 20.
C39_NameStoresInsideBuffer ==
    ret.fn = "cl_dm_local_name_complete" => ret.stores \subseteq own_name

\* a name of 21 bytes has been cached: 21 bytes are copied and the NUL is
\* stored at index 21
C39_NulBehindBuffer ==
    /\ ret.fn = "cl_dm_local_name_complete"
    /\ ret.size_local_name = MAX_OWN_NAME
    /\ ret.copy_size = MAX_OWN_NAME
    /\ ret.nul = MAX_OWN_NAME
====
